---- MODULE Spec2Model ----
(***************************************************************************)
(* A model of the eventkit runtime (Bus, Event, createEventHandler), of    *)
(* the EventBridge input-transformer inference (createTransform), of the   *)
(* schema registry module and of the schema auto-sync.                     *)
(*                                                                         *)
(* JavaScript values are records tagged by a field t, so that values of    *)
(* different JavaScript types can be compared: undefined, strings,         *)
(* numbers, dates, arrays and object references.  A string is kept as its  *)
(* identity (id), its length in UTF-16 code units (chars) and its UTF-8    *)
(* byte length (bytes): Buffer.byteLength reads bytes, .length reads chars.*)
(***************************************************************************)
EXTENDS Integers, Sequences, FiniteSets, TLC

VARIABLES
  pc,            \* "idle", "awaiting" (send calls in flight), "returned", "thrown"
                 \* (a rejected promise counts as thrown)
  call,          \* the operation in progress or last completed, with its arguments
  ret,           \* the value the last completed operation returned
  requests,      \* the send calls issued by the current operation, in issue order
  responses,     \* per send call: Pending, a PutEventsResponse, or Rejected
  resolvedBus,   \* per Event: its _resolvedBus field
  factoryCalls,  \* per Event: how many times its bus factory was invoked
  callbacks,     \* the payloads the handler's callback was invoked with by the
                 \* current operation, in invocation order
  globalRegistryConfig,  \* the schema registry module's configuration, or null
  cachedSchemaClient,    \* the schema registry module's cached client, or null
  registry,              \* the names of the schemas the remote registry holds
  outOfOrder             \* whether a send call of the current operation settled
                         \* while one issued before it was still pending

\* The state of the event handlers.
handlerVars == <<callbacks>>

\* The state of the schema registry module and of the remote registry.
registryVars == <<globalRegistryConfig, cachedSchemaClient, registry>>

\* What the client has been observed to do.
clientVars == <<outOfOrder>>

vars == <<pc, call, ret, requests, responses, resolvedBus, factoryCalls, callbacks,
          globalRegistryConfig, cachedSchemaClient, registry, outOfOrder>>

-----------------------------------------------------------------------------
(* JavaScript values *)

Undef == [t |-> "undefined"]
Null == [t |-> "null"]
Str(s) == [t |-> "string", id |-> s, chars |-> Len(s), bytes |-> Len(s)]
Blob(name, nchars, nbytes) == [t |-> "string", id |-> name, chars |-> nchars, bytes |-> nbytes]
Num(n) == [t |-> "number", v |-> n]
Arr(items) == [t |-> "array", items |-> items]
SomeDate == [t |-> "date"]

\* An object is a function from its property names to their values; a property it
\* does not have reads as undefined.
Get(o, k) == IF k \in DOMAIN o THEN o[k] ELSE Undef

\* typeof, with "array" and "date" told apart from other objects.
TypeOf(v) == IF "t" \in DOMAIN v THEN v.t ELSE "object"

\* JavaScript truthiness of a value: undefined, null, "", 0 and false are falsy.
Truthy(v) ==
  /\ TypeOf(v) \notin {"undefined", "null"}
  /\ ~(TypeOf(v) = "string" /\ v.chars = 0)
  /\ ~(TypeOf(v) = "number" /\ v.v = 0)
  /\ ~(TypeOf(v) = "boolean" /\ ~v.v)

RECURSIVE SumSeq(_)
SumSeq(s) == IF s = <<>> THEN 0 ELSE Head(s) + SumSeq(Tail(s))

RECURSIVE Flatten(_)
Flatten(ss) == IF ss = <<>> THEN <<>> ELSE Head(ss) \o Flatten(Tail(ss))

SeqsUpTo(S, n) == UNION {[1..k -> S] : k \in 0..n}

-----------------------------------------------------------------------------
(* Bus *)

\* Two Bus instances: inst is the identity that === compares.
BusA == [t |-> "bus", name |-> "bus-a", inst |-> "A"]
BusB == [t |-> "bus", name |-> "bus-b", inst |-> "B"]
Buses == {BusA, BusB}

MaxEntriesPerRequest == 10
MaxBytesPerRequest == 256000
TimestampSize == 14

\* Buffer.byteLength(s, "utf8")
byteLength(s) == s.bytes

computeEventSize(entry) ==
  LET time == IF Truthy(Get(entry, "Time")) THEN TimestampSize ELSE 0
      detail == IF Truthy(Get(entry, "Detail")) THEN byteLength(entry.Detail) ELSE 0
      detailType == IF Truthy(Get(entry, "DetailType")) THEN byteLength(entry.DetailType) ELSE 0
      source == IF Truthy(Get(entry, "Source")) THEN byteLength(entry.Source) ELSE 0
      resources == IF Truthy(Get(entry, "Resources"))
                   THEN SumSeq([i \in 1..Len(entry.Resources.items) |->
                                  byteLength(entry.Resources.items[i])])
                   ELSE 0
  IN time + detail + detailType + source + resources

\* chunkEntries with the count test written > instead of >=.
chunkStepOffByOne(st, entry) ==
  LET entrySize == computeEventSize(entry)
      exceeded == \/ Len(st.currentChunk) > MaxEntriesPerRequest
                  \/ st.currentSize + entrySize > MaxBytesPerRequest
                  \/ (Len(st.currentChunk) > 0 /\ st.currentSize + entrySize > MaxBytesPerRequest)
      flushed == IF exceeded /\ Len(st.currentChunk) > 0
                 THEN [chunks |-> Append(st.chunks, st.currentChunk),
                       currentChunk |-> <<>>, currentSize |-> 0]
                 ELSE st
  IN [chunks |-> flushed.chunks,
      currentChunk |-> Append(flushed.currentChunk, entry),
      currentSize |-> flushed.currentSize + entrySize]

\* chunkEntries closing the current chunk once it holds nine entries.
chunkStepEarly(st, entry) ==
  LET entrySize == computeEventSize(entry)
      exceeded == \/ Len(st.currentChunk) >= MaxEntriesPerRequest - 1
                  \/ st.currentSize + entrySize > MaxBytesPerRequest
                  \/ (Len(st.currentChunk) > 0 /\ st.currentSize + entrySize > MaxBytesPerRequest)
      flushed == IF exceeded /\ Len(st.currentChunk) > 0
                 THEN [chunks |-> Append(st.chunks, st.currentChunk),
                       currentChunk |-> <<>>, currentSize |-> 0]
                 ELSE st
  IN [chunks |-> flushed.chunks,
      currentChunk |-> Append(flushed.currentChunk, entry),
      currentSize |-> flushed.currentSize + entrySize]

\* One iteration of the for loop of chunkEntries.
chunkStep(st, entry) ==
  LET entrySize == computeEventSize(entry)
      exceeded == \/ Len(st.currentChunk) >= MaxEntriesPerRequest
                  \/ st.currentSize + entrySize > MaxBytesPerRequest
                  \/ (Len(st.currentChunk) > 0 /\ st.currentSize + entrySize > MaxBytesPerRequest)
      flushed == IF exceeded /\ Len(st.currentChunk) > 0
                 THEN [chunks |-> Append(st.chunks, st.currentChunk),
                       currentChunk |-> <<>>, currentSize |-> 0]
                 ELSE st
  IN [chunks |-> flushed.chunks,
      currentChunk |-> Append(flushed.currentChunk, entry),
      currentSize |-> flushed.currentSize + entrySize]

\* The for loop of chunkEntries.  Every iteration ends with the entry pushed onto
\* the current chunk, which is therefore not empty when the next one starts.
RECURSIVE chunkLoop(_, _)
chunkLoop(st, entries) ==
  IF entries = <<>> THEN st
  ELSE LET next == chunkStep(st, Head(entries))
       IN CASE Len(next.currentChunk) > 0 -> chunkLoop(next, Tail(entries))

\* chunkEntries without its final push of the current chunk.
chunkEntriesNoFinalChunk(entries) ==
  LET st == chunkLoop([chunks |-> <<>>, currentChunk |-> <<>>, currentSize |-> 0], entries)
  IN IF Len(st.chunks) > 0 THEN st.chunks ELSE << <<>> >>

\* chunkEntries returning no chunk at all for an empty input: return chunks.
chunkEntriesNoEmptyChunk(entries) ==
  LET st == chunkLoop([chunks |-> <<>>, currentChunk |-> <<>>, currentSize |-> 0], entries)
  IN IF Len(st.currentChunk) > 0 THEN Append(st.chunks, st.currentChunk) ELSE st.chunks

\* chunkEntries(entries): the chunks, or one empty chunk when there is none.
chunkEntries(entries) ==
  LET st == chunkLoop([chunks |-> <<>>, currentChunk |-> <<>>, currentSize |-> 0], entries)
      chunks == IF Len(st.currentChunk) > 0 THEN Append(st.chunks, st.currentChunk) ELSE st.chunks
  IN IF Len(chunks) > 0 THEN chunks ELSE << <<>> >>

\* { EventBusName: this._name, ...entry }: an EventBusName the entry already has wins.
withBusNameKeepExisting(bus, events) ==
  [i \in 1..Len(events) |->
     [k \in (DOMAIN events[i] \ {"__bus"}) \cup {"EventBusName"} |->
        IF k = "EventBusName" /\ k \notin DOMAIN events[i] THEN Str(bus.name)
        ELSE events[i][k]]]

\* { ...entry, EventBusName: this._name }: the spread copies the enumerable own
\* properties only, so the non-enumerable __bus tag is not carried over.
withBusName(bus, events) ==
  [i \in 1..Len(events) |->
     [k \in (DOMAIN events[i] \ {"__bus"}) \cup {"EventBusName"} |->
        IF k = "EventBusName" THEN Str(bus.name) ELSE events[i][k]]]

\* Bus.put sending the first chunk only before it waits for a response.
putRequestsFirstOnly(bus, events) ==
  LET chunked == chunkEntries(withBusName(bus, events))
  IN << [bus |-> bus, Entries |-> chunked[1]] >>

\* The send calls Bus.put issues: one PutEventsCommand per chunk.  The callback of
\* chunkedEntries.map runs for every chunk before put reaches its await.
putRequests(bus, events) ==
  LET chunked == chunkEntries(withBusName(bus, events))
  IN [i \in 1..Len(chunked) |-> [bus |-> bus, Entries |-> chunked[i]]]

\* merged.Entries.push(...result.Entries); merged.FailedEntryCount += result.FailedEntryCount,
\* keeping the last chunk's count instead of adding it up.
mergeStepLastCount(merged, result) ==
  [Entries |-> IF Truthy(result.Entries)
               THEN Arr(merged.Entries.items \o result.Entries.items)
               ELSE merged.Entries,
   FailedEntryCount |-> IF Truthy(result.FailedEntryCount)
                        THEN Num(result.FailedEntryCount.v)
                        ELSE merged.FailedEntryCount]

\* The reducer putting each result's entries in front of those merged so far:
\* merged.Entries.unshift(...result.Entries).
mergeStepPrepend(merged, result) ==
  [Entries |-> IF Truthy(result.Entries)
               THEN Arr(result.Entries.items \o merged.Entries.items)
               ELSE merged.Entries,
   FailedEntryCount |-> IF Truthy(result.FailedEntryCount)
                        THEN Num(merged.FailedEntryCount.v + result.FailedEntryCount.v)
                        ELSE merged.FailedEntryCount]

\* The reducer of Bus.put's results.reduce(...).
mergeStep(merged, result) ==
  [Entries |-> IF Truthy(result.Entries)
               THEN Arr(merged.Entries.items \o result.Entries.items)
               ELSE merged.Entries,
   FailedEntryCount |-> IF Truthy(result.FailedEntryCount)
                        THEN Num(merged.FailedEntryCount.v + result.FailedEntryCount.v)
                        ELSE merged.FailedEntryCount]

RECURSIVE reduceResults(_, _)
reduceResults(merged, results) ==
  IF results = <<>> THEN merged
  ELSE reduceResults(mergeStep(merged, Head(results)), Tail(results))

mergeResults(results) ==
  reduceResults([Entries |-> Arr(<<>>), FailedEntryCount |-> Num(0)], results)

\* What Bus.put resolves with once every send call has resolved.
putResult(results) ==
  IF Len(results) = 1 THEN results[1] ELSE mergeResults(results)

-----------------------------------------------------------------------------
(* The EventBridge client: what a send call may answer *)

Pending == [t |-> "pending"]
Rejected == [t |-> "rejected"]

\* The result entries of a response name the request entry they answer by its Detail.
entryKey(entry) == IF "Detail" \in DOMAIN entry THEN entry.Detail.id ELSE "no-detail"

Succeeded(entry) ==
  [EventId |-> Str("id-" \o entryKey(entry)), ErrorCode |-> Undef]
Failed(entry) ==
  [EventId |-> Undef, ErrorCode |-> Str("InternalFailure-" \o entryKey(entry))]

ResponseKinds == {"ok", "partial", "bare"}

\* A PutEventsResponse to a request: every field of the SDK's response type is
\* optional.  "ok": one result per entry, none failed; "partial": the first entry
\* failed; "bare": neither Entries nor FailedEntryCount is present.
Response(kind, request) ==
  LET es == request.Entries IN
  CASE kind = "ok" ->
         [Entries |-> Arr([i \in 1..Len(es) |-> Succeeded(es[i])]),
          FailedEntryCount |-> Num(0)]
    [] kind = "partial" ->
         [Entries |-> Arr([i \in 1..Len(es) |->
                             IF i = 1 THEN Failed(es[i]) ELSE Succeeded(es[i])]),
          FailedEntryCount |-> Num(IF Len(es) > 0 THEN 1 ELSE 0)]
    [] OTHER ->
         [Entries |-> Undef, FailedEntryCount |-> Undef]

-----------------------------------------------------------------------------
(* Inputs of Bus.put *)

MaxSmall == 21
MaxSized == 2

TestSource == Str("test-source")
TestType == Str("test.event")

EntryKinds == {"small", "half", "halfTimed", "over", "wide"}
SizedKinds == EntryKinds \ {"small"}

\* The i-th entry of an input, of a kind: Source and DetailType take 21 bytes.
\*   small      41 bytes         half       128000 bytes (two fit one request)
\*   named      41 bytes, EventBusName already set to another bus's name
\*   halfTimed  128014 bytes, Time set      over  256001 bytes
\*   wide       200021 bytes: a Detail of 150000 bytes in 100000 characters and
\*              two Resources of 25000 bytes
EntryOf(kind, i) ==
  LET name == "d" \o ToString(i)
      base == [Source |-> TestSource,
               DetailType |-> TestType,
               Detail |-> CASE kind \in {"small", "named"} -> Blob(name, 20, 20)
                            [] kind = "half" -> Blob(name, 127979, 127979)
                            [] kind = "halfTimed" -> Blob(name, 127979, 127979)
                            [] kind = "over" -> Blob(name, 255980, 255980)
                            [] OTHER -> Blob(name, 100000, 150000)]
  IN CASE kind = "halfTimed" -> base @@ [Time |-> SomeDate]
       [] kind = "named" -> base @@ [EventBusName |-> Str("other-bus")]
       [] kind = "wide" ->
            base @@ [Resources |-> Arr(<<Blob("r1", 25000, 25000), Blob("r2", 25000, 25000)>>)]
       [] OTHER -> base

EntriesOf(kinds) == [i \in 1..Len(kinds) |-> EntryOf(kinds[i], i)]

Smalls(n) == [i \in 1..n |-> "small"]

\* Runs of up to MaxSmall small entries with at most one sized or named entry before
\* or after them, and every sequence of up to MaxSized entries of the kinds above.
PutInputs ==
  LET one == SeqsUpTo(SizedKinds \cup {"named"}, 1) IN
  {EntriesOf(Smalls(n) \o s) : n \in 0..MaxSmall, s \in one}
    \cup {EntriesOf(s \o Smalls(n)) : n \in 0..MaxSmall, s \in one}
    \cup {EntriesOf(s) : s \in SeqsUpTo(EntryKinds, MaxSized)}

-----------------------------------------------------------------------------
(* Actions of Bus.put *)

Events == {"OrderCreated", "OrderUpdated", "PaymentProcessed"}

\* bus.put(events) called on a Bus, up to the point where every send call has been
\* issued.  A Bus keeps no state between calls, so one call is followed from Init.
BusPut(bus, events) ==
  /\ pc = "idle"
  /\ call' = [op |-> "Bus.put", bus |-> bus, events |-> events]
  /\ requests' = putRequests(bus, events)
  /\ responses' = [i \in 1..Len(requests') |-> Pending]
  /\ pc' = "awaiting"
  /\ ret' = Undef
  /\ UNCHANGED <<resolvedBus, factoryCalls, handlerVars, registryVars, clientVars>>

\* The i-th send call settles while one issued before it is still pending.
OvertakesEarlier(i) == \E j \in 1..(i - 1) : responses[j] = Pending

\* A client step after which put sends the request again when the response reports
\* a failed entry.
RespondAndRetry(i, kind) ==
  /\ pc = "awaiting"
  /\ i \in 1..Len(requests)
  /\ responses[i] = Pending
  /\ LET response == Response(kind, requests[i])
         failed == Truthy(response.FailedEntryCount)
     IN /\ responses' = IF failed
                        THEN Append([responses EXCEPT ![i] = response], Pending)
                        ELSE [responses EXCEPT ![i] = response]
        /\ requests' = IF failed THEN Append(requests, requests[i]) ELSE requests
  /\ outOfOrder' = (outOfOrder \/ OvertakesEarlier(i))
  /\ UNCHANGED <<pc, call, ret, resolvedBus, factoryCalls, handlerVars, registryVars>>

\* The client resolves the i-th send call.
Respond(i, kind) ==
  /\ pc = "awaiting"
  /\ i \in 1..Len(requests)
  /\ responses[i] = Pending
  /\ responses' = [responses EXCEPT ![i] = Response(kind, requests[i])]
  /\ outOfOrder' = (outOfOrder \/ OvertakesEarlier(i))
  /\ UNCHANGED <<pc, call, ret, requests, resolvedBus, factoryCalls, handlerVars, registryVars>>

\* The client rejects the i-th send call.
Reject(i) ==
  /\ pc = "awaiting"
  /\ i \in 1..Len(requests)
  /\ responses[i] = Pending
  /\ responses' = [responses EXCEPT ![i] = Rejected]
  /\ outOfOrder' = (outOfOrder \/ OvertakesEarlier(i))
  /\ UNCHANGED <<pc, call, ret, requests, resolvedBus, factoryCalls, handlerVars, registryVars>>

\* put resolving once every send call has settled, with the responses of those
\* that resolved.
PutReturnSettled ==
  /\ pc = "awaiting"
  /\ \A i \in 1..Len(responses) : responses[i] # Pending
  /\ ret' = putResult(SelectSeq(responses, LAMBDA r : r # Rejected))
  /\ pc' = "returned"
  /\ UNCHANGED <<call, requests, responses, resolvedBus, factoryCalls, handlerVars, registryVars, clientVars>>

\* Every send call has resolved: put resolves with the (merged) response.
PutReturn ==
  /\ pc = "awaiting"
  /\ \A i \in 1..Len(responses) : responses[i] \notin {Pending, Rejected}
  /\ ret' = putResult(responses)
  /\ pc' = "returned"
  /\ UNCHANGED <<call, requests, responses, resolvedBus, factoryCalls, handlerVars, registryVars, clientVars>>

\* A send call has rejected: the send promise or Promise.all rejects, and so does put.
PutThrow ==
  /\ pc = "awaiting"
  /\ \E i \in 1..Len(responses) : responses[i] = Rejected
  /\ ret' = Undef
  /\ pc' = "thrown"
  /\ UNCHANGED <<call, requests, responses, resolvedBus, factoryCalls, handlerVars, registryVars, clientVars>>

Init ==
  /\ pc = "idle"
  /\ call = [op |-> "none"]
  /\ ret = Undef
  /\ requests = <<>>
  /\ responses = <<>>
  /\ resolvedBus = [e \in Events |-> Undef]
  /\ factoryCalls = [e \in Events |-> 0]
  /\ callbacks = <<>>
  /\ globalRegistryConfig = Null
  /\ cachedSchemaClient = Null
  /\ registry = {}
  /\ outOfOrder = FALSE

NextBus ==
  \/ \E events \in PutInputs : BusPut(BusA, events)
  \/ \E i \in 1..Len(requests), kind \in ResponseKinds : Respond(i, kind)
  \/ \E i \in 1..Len(requests) : Reject(i)
  \/ PutReturn
  \/ PutThrow

SpecBus == Init /\ [][NextBus]_vars

-----------------------------------------------------------------------------
(* Event: definitions, schemas and the lazy bus *)

\* A schema field: z.string() / z.number(), required or .optional().
Field(name, type, required) == [name |-> name, type |-> type, required |-> required]

\* The Event instances of the program.  bus is what the constructor was given: a
\* Bus ("instance") or a function returning one ("factory").
EventDefs ==
  [e \in Events |->
     CASE e = "OrderCreated" ->
            [name |-> "order.created", source |-> "order-service",
             bus |-> [kind |-> "instance", value |-> BusA],
             schema |-> <<Field("orderId", "string", TRUE), Field("amount", "number", TRUE)>>]
       [] e = "OrderUpdated" ->
            [name |-> "order.updated", source |-> "order-service",
             bus |-> [kind |-> "factory", value |-> BusA],
             schema |-> <<Field("orderId", "string", TRUE), Field("status", "string", FALSE)>>]
       [] OTHER ->
            [name |-> "payment.processed", source |-> "payment-service",
             bus |-> [kind |-> "factory", value |-> BusB],
             schema |-> <<Field("paymentId", "string", TRUE)>>]]

\* The value the bus getter returns in the current state.
thisBus(e) ==
  IF Truthy(resolvedBus[e]) THEN resolvedBus[e] ELSE EventDefs[e].bus.value

\* The factory's call count after a bus getter that calls the factory on every read,
\* without the test of _resolvedBus.
factoryCallsEveryGet(e) ==
  [factoryCalls EXCEPT ![e] = IF EventDefs[e].bus.kind = "factory" THEN @ + 1 ELSE @]

\* The fields the bus getter leaves behind: _resolvedBus is set, and the factory has
\* run if there was one and nothing was resolved yet.
resolvedAfterGet(e) == [resolvedBus EXCEPT ![e] = thisBus(e)]
factoryCallsAfterGet(e) ==
  [factoryCalls EXCEPT ![e] =
     IF ~Truthy(resolvedBus[e]) /\ EventDefs[e].bus.kind = "factory" THEN @ + 1 ELSE @]

\* schema.parse(props) of a z.object schema: it throws unless every required field
\* is present and every present field has its type; the value it returns holds the
\* schema's fields only (unknown keys are stripped).
schemaAccepts(schema, props) ==
  \A i \in 1..Len(schema) :
    IF schema[i].name \in DOMAIN props
    THEN TypeOf(props[schema[i].name]) = schema[i].type
    ELSE ~schema[i].required

schemaParse(schema, props) ==
  [k \in {schema[i].name : i \in 1..Len(schema)} \cap DOMAIN props |-> props[k]]

\* JSON.stringify of a string or a number.
jsonValue(v) ==
  IF TypeOf(v) = "string" THEN "\"" \o v.id \o "\"" ELSE ToString(v.v)

RECURSIVE jsonMembers(_, _, _)
jsonMembers(schema, value, first) ==
  IF schema = <<>> THEN ""
  ELSE LET f == Head(schema).name IN
       IF f \in DOMAIN value
       THEN (IF first THEN "" ELSE ",") \o "\"" \o f \o "\":" \o jsonValue(value[f])
              \o jsonMembers(Tail(schema), value, FALSE)
       ELSE jsonMembers(Tail(schema), value, first)

\* JSON.stringify({ properties: validated }): the keys come in the schema's order.
stringifyDetail(schema, validated) ==
  Str("{\"properties\":{" \o jsonMembers(schema, validated, TRUE) \o "}}")

\* The own enumerable property names of an entry, which JSON.stringify and the
\* object spread go by: __bus is defined with enumerable: false.
ownEnumerableKeys(entry) == DOMAIN entry \ {"__bus"}

\* An entry whose Detail is the serialization of the validated value itself, without
\* the { properties: ... } wrapper.
createdEntryNoWrapper(e, props) ==
  [Source |-> Str(EventDefs[e].source),
   DetailType |-> Str(EventDefs[e].name),
   Detail |-> Str("{" \o jsonMembers(EventDefs[e].schema,
                                     schemaParse(EventDefs[e].schema, props), TRUE) \o "}"),
   __bus |-> thisBus(e)]

\* The entry create() builds once the properties have been validated; __bus is the
\* non-enumerable property Object.defineProperty attaches.
createdEntry(e, props) ==
  [Source |-> Str(EventDefs[e].source),
   DetailType |-> Str(EventDefs[e].name),
   Detail |-> stringifyDetail(EventDefs[e].schema, schemaParse(EventDefs[e].schema, props)),
   __bus |-> thisBus(e)]

\* create(properties): threw says whether schema.parse threw, busRead whether the
\* bus getter was reached.
create(e, props) ==
  IF schemaAccepts(EventDefs[e].schema, props)
  THEN [threw |-> FALSE, busRead |-> TRUE, entry |-> createdEntry(e, props)]
  ELSE [threw |-> TRUE, busRead |-> FALSE]

isPutEventsRequestEntry(value) ==
  /\ Truthy(value)
  /\ TypeOf(value) \in {"object", "array", "date"}
  /\ TypeOf(Get(value, "Source")) = "string"
  /\ TypeOf(Get(value, "DetailType")) = "string"
  /\ TypeOf(Get(value, "Detail")) \in {"undefined", "string"}

getBusFromEntry(entry) == Get(entry, "__bus")

\* getBusFromEntry(entry) || this.bus
entryBus(e, entry) ==
  IF Truthy(getBusFromEntry(entry)) THEN getBusFromEntry(entry) ELSE thisBus(e)

\* The index of the first TRUE of a list of booleans, or 0: where a loop that
\* throws at the first offending element stops.
FirstIndex(flags) ==
  IF \E i \in 1..Len(flags) : flags[i]
  THEN CHOOSE i \in 1..Len(flags) : flags[i] /\ \A j \in 1..(i - 1) : ~flags[j]
  ELSE 0

\* The same-bus check skipping the entries that carry no __bus.
publishEntriesTaggedOnly(e, items) ==
  LET firstBus == entryBus(e, items[1])
      bad == FirstIndex([i \in 1..Len(items) |->
                           Truthy(getBusFromEntry(items[i]))
                             /\ getBusFromEntry(items[i]) # firstBus])
  IN IF bad # 0
     THEN [threw |-> TRUE, busRead |-> ~Truthy(getBusFromEntry(items[1]))]
     ELSE [threw |-> FALSE, busRead |-> ~Truthy(getBusFromEntry(items[1])),
           bus |-> firstBus, entries |-> items]

\* publish(data) for an array of entries, always putting through this.bus.
publishEntriesOwnBus(e, items) ==
  LET firstBus == entryBus(e, items[1])
      bad == FirstIndex([i \in 1..Len(items) |-> entryBus(e, items[i]) # firstBus])
  IN IF bad # 0
     THEN [threw |-> TRUE, busRead |-> TRUE]
     ELSE [threw |-> FALSE, busRead |-> TRUE, bus |-> thisBus(e), entries |-> items]

\* publish(data) for an array whose first element is an entry: the same-bus check
\* over all elements, then firstBus.put(entries).
publishEntries(e, items) ==
  LET firstBus == entryBus(e, items[1])
      bad == FirstIndex([i \in 1..Len(items) |-> entryBus(e, items[i]) # firstBus])
      examined == IF bad = 0 THEN Len(items) ELSE bad
      busRead == \E i \in 1..examined : ~Truthy(getBusFromEntry(items[i]))
  IN IF bad # 0
     THEN [threw |-> TRUE, busRead |-> busRead]
     ELSE [threw |-> FALSE, busRead |-> busRead, bus |-> firstBus, entries |-> items]

\* publishRecords leaving out the records the schema rejects instead of failing.
publishRecordsSkipInvalid(e, items) ==
  LET NotEntry(x) == ~isPutEventsRequestEntry(x)
      Accepted(x) == ~create(e, x).threw
      schemaEntries == SelectSeq(SelectSeq(items, NotEntry), Accepted)
  IN [threw |-> FALSE, busRead |-> TRUE, bus |-> thisBus(e),
      entries |-> [i \in 1..Len(schemaEntries) |-> create(e, schemaEntries[i]).entry]]

\* publish(data) for an array whose first element is not an entry: the elements
\* that are not entries are passed to create() one by one, then this.bus.put.
publishRecords(e, items) ==
  LET NotEntry(x) == ~isPutEventsRequestEntry(x)
      schemaEntries == SelectSeq(items, NotEntry)
      bad == FirstIndex([i \in 1..Len(schemaEntries) |-> create(e, schemaEntries[i]).threw])
  IN IF bad # 0
     THEN [threw |-> TRUE, busRead |-> bad > 1]
     ELSE [threw |-> FALSE, busRead |-> TRUE, bus |-> thisBus(e),
           entries |-> [i \in 1..Len(schemaEntries) |-> create(e, schemaEntries[i]).entry]]

\* publish([]) goes on to data[0], which is undefined: the empty-array test is missing.
publishArrayNoEmptyCheck(e, items) ==
  IF Len(items) > 0 /\ isPutEventsRequestEntry(items[1])
  THEN publishEntries(e, items)
  ELSE publishRecords(e, items)

\* publish(data), data an array.
publishArray(e, items) ==
  IF Len(items) = 0
  THEN [threw |-> TRUE, busRead |-> FALSE]
  ELSE IF isPutEventsRequestEntry(items[1])
       THEN publishEntries(e, items)
       ELSE publishRecords(e, items)

\* publish(data), data a single record: this.bus.put([this.create(data)]) reads
\* this.bus before it evaluates the argument.
publishOne(e, props) ==
  IF create(e, props).threw
  THEN [threw |-> TRUE, busRead |-> TRUE]
  ELSE [threw |-> FALSE, busRead |-> TRUE, bus |-> thisBus(e),
        entries |-> <<create(e, props).entry>>]

publish(e, data) ==
  IF TypeOf(data) = "array" THEN publishArray(e, data.items) ELSE publishOne(e, data)

-----------------------------------------------------------------------------
(* Event: patterns *)

\* pattern(filter) taking a filter without keys for no filter.
patternNonEmptyOnly(e, filter) ==
  LET basePattern == ("source" :> <<EventDefs[e].source>>)
                       @@ ("detail-type" :> <<EventDefs[e].name>>)
  IN IF Truthy(filter) /\ DOMAIN filter # {}
     THEN basePattern @@ ("detail" :> [properties |-> filter])
     ELSE basePattern

\* pattern(filter)
pattern(e, filter) ==
  LET basePattern == ("source" :> <<EventDefs[e].source>>)
                       @@ ("detail-type" :> <<EventDefs[e].name>>)
  IN IF Truthy(filter)
     THEN basePattern @@ ("detail" :> [properties |-> filter])
     ELSE basePattern

\* The list as it is, duplicates kept.
distinctKeepsAll(list, seen) == list

\* [...new Set(list)]: the distinct elements in order of first occurrence.
RECURSIVE distinct(_, _)
distinct(list, seen) ==
  IF list = <<>> THEN <<>>
  ELSE IF Head(list) \in seen THEN distinct(Tail(list), seen)
       ELSE <<Head(list)>> \o distinct(Tail(list), seen \cup {Head(list)})

\* computePattern without the test for an empty list.
computePatternNoEmptyCheck(events, filter) ==
  LET sources == distinct([i \in 1..Len(events) |-> EventDefs[events[i]].source], {})
      detailTypes == [i \in 1..Len(events) |-> EventDefs[events[i]].name]
      basePattern == ("source" :> sources) @@ ("detail-type" :> detailTypes)
  IN [threw |-> FALSE,
      value |-> IF Truthy(filter)
                THEN basePattern @@ ("detail" :> [properties |-> filter])
                ELSE basePattern]

\* computePattern(events, filter)
computePattern(events, filter) ==
  IF Len(events) = 0
  THEN [threw |-> TRUE]
  ELSE LET sources == distinct([i \in 1..Len(events) |-> EventDefs[events[i]].source], {})
           detailTypes == [i \in 1..Len(events) |-> EventDefs[events[i]].name]
           basePattern == ("source" :> sources) @@ ("detail-type" :> detailTypes)
       IN [threw |-> FALSE,
           value |-> IF Truthy(filter)
                     THEN basePattern @@ ("detail" :> [properties |-> filter])
                     ELSE basePattern]

-----------------------------------------------------------------------------
(* Inputs and actions of Event *)

MaxItems == 3
MaxEvents == 3

ValidRecord(e) ==
  CASE e = "OrderCreated" -> [orderId |-> Str("o1"), amount |-> Num(100)]
    [] e = "OrderUpdated" -> [orderId |-> Str("o1"), traceId |-> Str("t1")]
    [] OTHER -> [paymentId |-> Str("p1")]

InvalidRecord(e) ==
  CASE e = "OrderCreated" -> [orderId |-> Str("o1"), amount |-> Str("invalid")]
    [] e = "OrderUpdated" -> [status |-> Str("done")]
    [] OTHER -> [paymentId |-> Num(7)]

Records(e) == {ValidRecord(e), InvalidRecord(e)}

\* An entry written by hand: it carries no __bus.
ManualEntry ==
  [Source |-> Str("manual"), DetailType |-> Str("manual.event"), Detail |-> Str("{}")]

\* The entries create() can have returned by now: those of the Events whose bus is
\* resolved (create() resolves it), tagged with that bus.
CreatedEntries ==
  {createdEntry(e, ValidRecord(e)) : e \in {x \in Events : Truthy(resolvedBus[x])}}

\* What publish() of Event e may be given: a record, or an array of up to MaxItems
\* records, created entries and hand-written entries.
PublishInputs(e) ==
  Records(e)
    \cup {Arr(items) : items \in SeqsUpTo(Records(e) \cup CreatedEntries \cup {ManualEntry},
                                          MaxItems)}

NoFilter == Undef
EmptyFilter == [k \in {} |-> Undef]
Filters ==
  {NoFilter,
   EmptyFilter,
   [amount |-> <<Num(100), Num(200)>>, status |-> <<Str("completed")>>],
   [amount |-> <<[numeric |-> <<Str(">"), Num(100)>>]>>],
   ("$or" :> <<[status |-> <<Str("pending")>>],
               [orderId |-> <<[prefix |-> Str("ORDER-")]>>]>>)}

\* event.create(props)
Create(e, props) ==
  /\ pc = "idle"
  /\ call' = [op |-> "create", event |-> e, data |-> props]
  /\ requests' = <<>>
  /\ responses' = <<>>
  /\ LET r == create(e, props) IN
       /\ pc' = IF r.threw THEN "thrown" ELSE "returned"
       /\ ret' = IF r.threw THEN Undef ELSE r.entry
       /\ resolvedBus' = IF r.busRead THEN resolvedAfterGet(e) ELSE resolvedBus
       /\ factoryCalls' = IF r.busRead THEN factoryCallsAfterGet(e) ELSE factoryCalls
  /\ UNCHANGED <<handlerVars, registryVars, clientVars>>

\* event.publish(data), up to the point where it has thrown or Bus.put has issued
\* every send call.
Publish(e, data) ==
  /\ pc = "idle"
  /\ call' = [op |-> "publish", event |-> e, data |-> data]
  /\ ret' = Undef
  /\ LET r == publish(e, data) IN
       /\ pc' = IF r.threw THEN "thrown" ELSE "awaiting"
       /\ requests' = IF r.threw THEN <<>> ELSE putRequests(r.bus, r.entries)
       /\ responses' = [i \in 1..Len(requests') |-> Pending]
       /\ resolvedBus' = IF r.busRead THEN resolvedAfterGet(e) ELSE resolvedBus
       /\ factoryCalls' = IF r.busRead THEN factoryCallsAfterGet(e) ELSE factoryCalls
  /\ UNCHANGED <<handlerVars, registryVars, clientVars>>

\* event.pattern(filter) going through the bus getter on its way.
PatternReadingBus(e, filter) ==
  /\ pc = "idle"
  /\ call' = [op |-> "pattern", event |-> e, filter |-> filter]
  /\ pc' = "returned"
  /\ ret' = pattern(e, filter)
  /\ requests' = <<>>
  /\ responses' = <<>>
  /\ resolvedBus' = resolvedAfterGet(e)
  /\ factoryCalls' = factoryCallsAfterGet(e)
  /\ UNCHANGED <<handlerVars, registryVars, clientVars>>

\* event.pattern(filter)
Pattern(e, filter) ==
  /\ pc = "idle"
  /\ call' = [op |-> "pattern", event |-> e, filter |-> filter]
  /\ pc' = "returned"
  /\ ret' = pattern(e, filter)
  /\ requests' = <<>>
  /\ responses' = <<>>
  /\ UNCHANGED <<resolvedBus, factoryCalls, handlerVars, registryVars, clientVars>>

\* Event.computePattern(events, filter)
ComputePattern(events, filter) ==
  /\ pc = "idle"
  /\ call' = [op |-> "computePattern", events |-> events, filter |-> filter]
  /\ LET r == computePattern(events, filter) IN
       /\ pc' = IF r.threw THEN "thrown" ELSE "returned"
       /\ ret' = IF r.threw THEN Undef ELSE r.value
  /\ requests' = <<>>
  /\ responses' = <<>>
  /\ UNCHANGED <<resolvedBus, factoryCalls, handlerVars, registryVars, clientVars>>

\* The caller has taken the result or the error: no operation is in progress.
Done ==
  /\ pc \in {"returned", "thrown"}
  /\ pc' = "idle"
  /\ call' = [op |-> "none"]
  /\ ret' = Undef
  /\ requests' = <<>>
  /\ responses' = <<>>
  /\ callbacks' = <<>>
  /\ outOfOrder' = FALSE
  /\ UNCHANGED <<resolvedBus, factoryCalls, registryVars>>

\* A new operation starts when none is in progress.
NextEvent ==
  \/ pc = "idle" /\ \E e \in Events : \E props \in Records(e) : Create(e, props)
  \/ pc = "idle" /\ \E e \in Events : \E data \in PublishInputs(e) : Publish(e, data)
  \/ pc = "idle" /\ \E e \in Events, filter \in Filters : Pattern(e, filter)
  \/ pc = "idle" /\ \E events \in SeqsUpTo(Events, MaxEvents), filter \in Filters :
                      ComputePattern(events, filter)
  \/ \E i \in 1..Len(requests), kind \in ResponseKinds : Respond(i, kind)
  \/ \E i \in 1..Len(requests) : Reject(i)
  \/ PutReturn
  \/ PutThrow
  \/ Done

SpecEvent == Init /\ [][NextEvent]_vars

-----------------------------------------------------------------------------
(* createEventHandler *)

\* The event definitions a handler may list: those of the program, and a second
\* definition named order.created whose schema asks for orderId only.
HandlerEvents == Events \cup {"OrderCreatedV2"}

HandlerDefs(h) ==
  IF h \in Events THEN EventDefs[h]
  ELSE [name |-> "order.created", source |-> "order-service",
        bus |-> [kind |-> "instance", value |-> BusA],
        schema |-> <<Field("orderId", "string", TRUE)>>]

\* findMatching returning the last listed definition with that name.
findMatchingLast(events, eventType) ==
  IF \E i \in 1..Len(events) : Str(HandlerDefs(events[i]).name) = eventType
  THEN CHOOSE i \in 1..Len(events) :
         /\ Str(HandlerDefs(events[i]).name) = eventType
         /\ \A j \in (i + 1)..Len(events) : Str(HandlerDefs(events[j]).name) # eventType
  ELSE 0

\* events.find((event) => event.name === eventType): the index of the first listed
\* definition with that name, or 0.
findMatching(events, eventType) ==
  FirstIndex([i \in 1..Len(events) |-> Str(HandlerDefs(events[i]).name) = eventType])

\* matchingEvent.schema.parse(value): a z.object schema rejects undefined.
handlerAccepts(schema, value) ==
  TypeOf(value) # "undefined" /\ schemaAccepts(schema, value)

\* The handler up to its await: threw says whether it threw before calling the
\* callback, payload is what it calls the callback with.  Reading
\* awsEvent.detail.properties throws when detail is undefined.
handle(events, awsEvent) ==
  LET eventType == awsEvent["detail-type"]
      matchingEvent == findMatching(events, eventType)
  IN IF matchingEvent = 0 THEN [threw |-> TRUE]
     ELSE IF TypeOf(awsEvent.detail) = "undefined" THEN [threw |-> TRUE]
     ELSE LET schema == HandlerDefs(events[matchingEvent]).schema
              properties == Get(awsEvent.detail, "properties")
          IN IF ~handlerAccepts(schema, properties) THEN [threw |-> TRUE]
             ELSE [threw |-> FALSE,
                   payload |-> [type |-> eventType,
                                properties |-> schemaParse(schema, properties),
                                metadata |-> Get(awsEvent.detail, "metadata")]]

MaxHandlerEvents == 2

\* detail.properties of the envelopes: the valid and invalid records of
\* OrderCreated, a record with orderId only, and the valid record of OrderUpdated.
HandlerProperties ==
  {ValidRecord("OrderCreated"), InvalidRecord("OrderCreated"),
   [orderId |-> Str("o1")], ValidRecord("OrderUpdated")}

Details ==
  {Undef, [metadata |-> Str("m1")]}
    \cup {[properties |-> p] : p \in HandlerProperties}
    \cup {[properties |-> p, metadata |-> Str("m1")] : p \in HandlerProperties}

Envelopes ==
  {("detail-type" :> Str(type)) @@ [detail |-> detail] :
     type \in {"order.created", "order.updated", "order.deleted"}, detail \in Details}

\* The handler is invoked with an envelope and runs up to its await of the callback,
\* or throws.
Handle(events, awsEvent) ==
  /\ pc = "idle"
  /\ call' = [op |-> "handler", events |-> events, awsEvent |-> awsEvent]
  /\ ret' = Undef
  /\ LET r == handle(events, awsEvent) IN
       /\ pc' = IF r.threw THEN "thrown" ELSE "inCallback"
       /\ callbacks' = IF r.threw THEN <<>> ELSE <<r.payload>>
  /\ UNCHANGED <<requests, responses, resolvedBus, factoryCalls, registryVars, clientVars>>

\* The callback's promise resolves: so does the handler's.
CallbackResolve ==
  /\ pc = "inCallback"
  /\ pc' = "returned"
  /\ UNCHANGED <<call, ret, requests, responses, resolvedBus, factoryCalls, handlerVars, registryVars, clientVars>>

\* The callback's promise rejects: so does the handler's.
CallbackReject ==
  /\ pc = "inCallback"
  /\ pc' = "thrown"
  /\ UNCHANGED <<call, ret, requests, responses, resolvedBus, factoryCalls, handlerVars, registryVars, clientVars>>

NextHandler ==
  \/ pc = "idle" /\ \E events \in SeqsUpTo(HandlerEvents, MaxHandlerEvents) :
                      \E awsEvent \in Envelopes : Handle(events, awsEvent)
  \/ CallbackResolve
  \/ CallbackReject
  \/ Done

SpecHandler == Init /\ [][NextHandler]_vars

-----------------------------------------------------------------------------
(* createTransform: proxies, full-event detection, input paths, template *)

\* A plain object: its members in insertion order, the order Object.values,
\* Object.entries and JSON.stringify follow.
Member(key, value) == [key |-> key, value |-> value]
Obj(members) == [t |-> "object", members |-> members]

\* The two Proxy objects createTransform hands to the transform function; === tells
\* them apart from every other value.
EventProxy == [t |-> "proxy", of |-> "event"]
SystemProxy == [t |-> "proxy", of |-> "system"]

\* What the get trap of either proxy returns for a property name.
Placeholder(prop) == Str("<" \o prop \o ">")

\* A transform function is given by the expression it returns (body) and by the
\* event properties it reads without returning them (alsoReads).  Expressions:
PropT(f) == [k |-> "prop", f |-> f]                    \* event.f
SysT(f) == [k |-> "sys", f |-> f]                      \* system.f
EventT == [k |-> "event"]                              \* event
SystemT == [k |-> "system"]                            \* system
LitT(s) == [k |-> "lit", s |-> s]                      \* a string literal
ObjT(members) == [k |-> "obj", members |-> members]    \* { key: expression, ... }
ArrT(items) == [k |-> "arr", items |-> items]          \* [ expression, ... ]

\* The expressions an expression is made of, itself included.
RECURSIVE subterms(_)
subterms(term) ==
  {term} \cup
    CASE term.k = "obj" ->
           UNION {subterms(term.members[i].value) : i \in 1..Len(term.members)}
      [] term.k = "arr" -> UNION {subterms(term.items[i]) : i \in 1..Len(term.items)}
      [] OTHER -> {}

\* The value an expression evaluates to when event and system are the proxies.
RECURSIVE evalTerm(_)
evalTerm(term) ==
  CASE term.k = "prop" -> Placeholder(term.f)
    [] term.k = "sys" -> Placeholder(term.f)
    [] term.k = "event" -> EventProxy
    [] term.k = "system" -> SystemProxy
    [] term.k = "lit" -> Str(term.s)
    [] term.k = "obj" ->
         Obj([i \in 1..Len(term.members) |->
                Member(term.members[i].key, evalTerm(term.members[i].value))])
    [] OTHER -> Arr([i \in 1..Len(term.items) |-> evalTerm(term.items[i])])

\* transform(eventProxy, systemProxy): the value returned, and the property names
\* the get traps have added to accessedFields and systemFields meanwhile.
runTransform(transform) ==
  [result |-> evalTerm(transform.body),
   accessedFields |->
     {s.f : s \in {s \in subterms(transform.body) : s.k = "prop"}} \cup transform.alsoReads,
   systemFields |-> {s.f : s \in {s \in subterms(transform.body) : s.k = "sys"}}]

\* Object.values(obj).  The system proxy has no ownKeys trap, so its keys are those
\* of its target, time and source, and their values come from its get trap.
objectValues(obj) ==
  CASE obj.t = "array" -> obj.items
    [] obj.t = "object" -> [i \in 1..Len(obj.members) |-> obj.members[i].value]
    [] obj = SystemProxy -> <<Placeholder("time"), Placeholder("source")>>
    [] OTHER -> <<>>

\* containsEventProxy(obj, eventProxy), with systemFields as its reads through the
\* system proxy leave it: found is the value returned.  The loop over the values
\* stops at the first value that contains the proxy.
RECURSIVE containsEventProxy(_, _)
RECURSIVE containsInValues(_, _)
containsEventProxy(obj, systemFields) ==
  IF obj = EventProxy THEN [found |-> TRUE, systemFields |-> systemFields]
  ELSE IF obj.t \notin {"object", "array", "proxy"}
       THEN [found |-> FALSE, systemFields |-> systemFields]
       ELSE containsInValues(objectValues(obj),
                             IF obj = SystemProxy
                             THEN systemFields \cup {"time", "source"}
                             ELSE systemFields)

containsInValues(values, systemFields) ==
  IF values = <<>> THEN [found |-> FALSE, systemFields |-> systemFields]
  ELSE LET first == containsEventProxy(Head(values), systemFields)
       IN IF first.found THEN first
          ELSE containsInValues(Tail(values), first.systemFields)

\* reconstructWithTemplate(obj, eventProxy, replacement)
RECURSIVE reconstructWithTemplate(_, _)
reconstructWithTemplate(obj, replacement) ==
  IF obj = EventProxy THEN replacement
  ELSE CASE obj.t = "array" ->
              Arr([i \in 1..Len(obj.items) |->
                     reconstructWithTemplate(obj.items[i], replacement)])
         [] obj.t = "object" ->
              Obj([i \in 1..Len(obj.members) |->
                     Member(obj.members[i].key,
                            reconstructWithTemplate(obj.members[i].value, replacement))])
         [] obj = SystemProxy ->
              Obj(<<Member("time", Placeholder("time")),
                    Member("source", Placeholder("source"))>>)
         [] OTHER -> obj

\* JSON.stringify of a value made of strings, arrays, plain objects and the
\* proxies.  The event proxy has no own keys; the system proxy has time and source.
RECURSIVE JSONstringify(_)
RECURSIVE stringifyItems(_, _)
RECURSIVE stringifyMembers(_, _)
JSONstringify(v) ==
  CASE v.t = "string" -> "\"" \o v.id \o "\""
    [] v.t = "array" -> "[" \o stringifyItems(v.items, TRUE) \o "]"
    [] v.t = "object" -> "{" \o stringifyMembers(v.members, TRUE) \o "}"
    [] v = SystemProxy -> "{\"time\":\"<time>\",\"source\":\"<source>\"}"
    [] OTHER -> "{}"

stringifyItems(items, first) ==
  IF items = <<>> THEN ""
  ELSE (IF first THEN "" ELSE ",") \o JSONstringify(Head(items))
         \o stringifyItems(Tail(items), FALSE)

stringifyMembers(members, first) ==
  IF members = <<>> THEN ""
  ELSE (IF first THEN "" ELSE ",") \o "\"" \o Head(members).key \o "\":"
         \o JSONstringify(Head(members).value) \o stringifyMembers(Tail(members), FALSE)

\* schema.safeParse({}) of a z.object schema: one issue for each required field,
\* whose path is the field's name; a field that may be absent raises none.
safeParseEmpty(schema) ==
  LET missing == SelectSeq(schema, LAMBDA field : field.required)
  IN [success |-> missing = <<>>,
      issues |-> [i \in 1..Len(missing) |-> [path |-> <<missing[i].name>>]]]

\* extractSchemaFields(schema): the first path element of every issue, once each.
extractSchemaFields(schema) ==
  LET result == safeParseEmpty(schema)
  IN IF ~result.success
     THEN distinct([i \in 1..Len(result.issues) |-> result.issues[i].path[1]], {})
     ELSE <<>>

\* generateInputPaths with every path under $.detail instead of $.detail.properties.
generateInputPathsNoProperties(accessedFields, systemFields, schemaFields) ==
  LET fields == IF TypeOf(schemaFields) # "undefined"
                THEN {schemaFields.items[i] : i \in 1..Len(schemaFields.items)}
                ELSE accessedFields
      system == systemFields \cap {"time", "source"}
  IN [field \in fields \cup system |->
        IF field \in system THEN "$." \o field ELSE "$.detail." \o field]

\* generateInputPaths(accessedFields, systemFields, schemaFields): the record of
\* paths.  The paths of the system fields time and source are assigned last.
generateInputPaths(accessedFields, systemFields, schemaFields) ==
  LET fields == IF TypeOf(schemaFields) # "undefined"
                THEN {schemaFields.items[i] : i \in 1..Len(schemaFields.items)}
                ELSE accessedFields
      system == systemFields \cap {"time", "source"}
  IN [field \in fields \cup system |->
        IF field \in system THEN "$." \o field ELSE "$.detail.properties." \o field]

\* An Event passed as the eventSchema argument.
EventRef(e) == [t |-> "event", e |-> e]

\* createTransform(transform, eventSchema)
createTransform(transform, eventSchema) ==
  LET run == runTransform(transform)
      usesFullEvent == containsEventProxy(run.result, run.systemFields)
  IN IF usesFullEvent.found /\ Truthy(eventSchema)
     THEN LET schemaFields == extractSchemaFields(EventDefs[eventSchema.e].schema)
              inputPaths == generateInputPaths(run.accessedFields,
                                               usesFullEvent.systemFields,
                                               Arr(schemaFields))
              eventTemplate ==
                Obj([i \in 1..Len(schemaFields) |->
                       Member(schemaFields[i], Placeholder(schemaFields[i]))])
              finalResult == reconstructWithTemplate(run.result, eventTemplate)
          IN [inputPaths |-> inputPaths, inputTemplate |-> JSONstringify(finalResult)]
     ELSE [inputPaths |-> generateInputPaths(run.accessedFields,
                                             usesFullEvent.systemFields, Undef),
           inputTemplate |-> JSONstringify(run.result)]

-----------------------------------------------------------------------------
(* createTransform: inputs and actions *)

MaxMembers == 2

\* Property names a transform reads from event and from system.  time is both a
\* property name and a system field; id is not a field of the system object.
PropNames == {"orderId", "status", "time"}
SystemNames == {"time", "source", "id"}

Leaves ==
  {PropT(f) : f \in PropNames} \cup {SysT(f) : f \in SystemNames}
    \cup {EventT, SystemT, LitT("fixed")}

Nested ==
  {ObjT(<<Member("inner", leaf)>>) : leaf \in Leaves}
    \cup {ArrT(<<leaf>>) : leaf \in {PropT("orderId"), EventT, SystemT}}

\* The transform bodies: event itself, or an object literal of up to MaxMembers
\* members k1, k2, ... whose values are leaves or one level of nesting.
Bodies ==
  {EventT} \cup
    UNION {{ObjT([i \in 1..n |-> Member("k" \o ToString(i), values[i])]) :
              values \in [1..n -> Leaves \cup Nested]} : n \in 0..MaxMembers}

Transforms == {[body |-> body, alsoReads |-> reads] : body \in Bodies, reads \in {{}, {"note"}}}

EventSchemas == {Undef} \cup {EventRef(e) : e \in Events}

\* createTransform(transform, eventSchema)
CreateTransform(transform, eventSchema) ==
  /\ pc = "idle"
  /\ call' = [op |-> "createTransform", transform |-> transform, eventSchema |-> eventSchema]
  /\ ret' = createTransform(transform, eventSchema)
  /\ pc' = "returned"
  /\ UNCHANGED <<requests, responses, resolvedBus, factoryCalls, handlerVars, registryVars, clientVars>>

NextTransform ==
  \/ pc = "idle" /\ \E transform \in Transforms, eventSchema \in EventSchemas :
                      CreateTransform(transform, eventSchema)
  \/ Done

SpecTransform == Init /\ [][NextTransform]_vars

-----------------------------------------------------------------------------
(* Schema registry: configuration, client, registerSchema *)

\* An Error with its message, and the text a catch block takes from what was
\* thrown: error instanceof Error ? error.message : String(error).
ErrorOf(message) == [t |-> "error", message |-> message]
errorText(error) == IF TypeOf(error) = "error" THEN error.message ELSE error.id

NotConfiguredMessage ==
  "Schema Registry not configured. Call schemaRegistry.configure() or set environment variables."
MissingDependencyMessage ==
  "AWS SDK not found. Install @aws-sdk/client-schemas to use EventBridge Schema Registry."
ImportFailedMessage == "Cannot find package '@aws-sdk/client-schemas'"

\* configure(config): { region: "us-east-1", ...config }
configured(config) ==
  [registryName |-> config.registryName,
   region |-> IF "region" \in DOMAIN config THEN config.region ELSE Str("us-east-1")]

\* createRegistryConfigFromEnv(), env being process.env
createRegistryConfigFromEnv(env) ==
  IF ~Truthy(Get(env, "SCHEMA_REGISTRY_NAME")) THEN Null
  ELSE [registryName |-> env.SCHEMA_REGISTRY_NAME,
        region |-> IF Truthy(Get(env, "AWS_REGION")) THEN env.AWS_REGION
                   ELSE IF Truthy(Get(env, "AWS_DEFAULT_REGION"))
                        THEN env.AWS_DEFAULT_REGION
                        ELSE Str("us-east-1")]

\* getConfig() with global as globalRegistryConfig: what it returns or throws, and
\* globalRegistryConfig afterwards.
getConfig(global, env) ==
  IF Truthy(global) THEN [threw |-> FALSE, config |-> global, global |-> global]
  ELSE LET envConfig == createRegistryConfigFromEnv(env)
       IN IF Truthy(envConfig)
          THEN [threw |-> FALSE, config |-> envConfig, global |-> envConfig]
          ELSE [threw |-> TRUE, error |-> ErrorOf(NotConfiguredMessage), global |-> global]

\* getSchemaClient() with cached as cachedSchemaClient; sdk says whether
\* import("@aws-sdk/client-schemas") resolves.
getSchemaClient(cached, global, env, sdk) ==
  IF Truthy(cached)
  THEN [threw |-> FALSE, client |-> cached, cached |-> cached, global |-> global]
  ELSE LET config == getConfig(global, env)
       IN IF config.threw
          THEN [threw |-> TRUE, error |-> config.error, cached |-> cached,
                global |-> config.global]
          ELSE IF ~sdk
               THEN [threw |-> TRUE, error |-> ErrorOf(MissingDependencyMessage),
                     cached |-> cached, global |-> config.global]
               ELSE LET client == [t |-> "client", region |-> config.config.region]
                    IN [threw |-> FALSE, client |-> client, cached |-> client,
                        global |-> config.global]

\* A command handed to client.send.
Command(name, input) == [command |-> name, input |-> input]

\* registerSchema(schema) up to its first await of client.send: either it has
\* caught an error (failed), or it has sent DescribeSchemaCommand.
registerStart(schema, cached, global, env, sdk) ==
  LET client == getSchemaClient(cached, global, env, sdk)
  IN IF client.threw
     THEN [failed |-> TRUE, error |-> client.error,
           cached |-> client.cached, global |-> client.global]
     ELSE LET config == getConfig(client.global, env)
          IN IF config.threw
             THEN [failed |-> TRUE, error |-> config.error,
                   cached |-> client.cached, global |-> config.global]
             ELSE IF ~sdk
                  THEN [failed |-> TRUE, error |-> ErrorOf(ImportFailedMessage),
                        cached |-> client.cached, global |-> config.global]
                  ELSE [failed |-> FALSE, cached |-> client.cached, global |-> config.global,
                        command |-> Command("DescribeSchema",
                                            [RegistryName |-> config.config.registryName,
                                             SchemaName |-> schema.type])]

\* The CreateSchemaCommand or UpdateSchemaCommand registerSchema sends once it
\* knows whether the schema exists.
writeCommand(schema, describe, schemaExists) ==
  LET common == [RegistryName |-> describe.input.RegistryName,
                 SchemaName |-> schema.type,
                 Content |-> schema.schema,
                 Description |-> Get(schema, "description"),
                 Type |-> Str("JSONSchemaDraft4")]
  IN IF schemaExists THEN Command("UpdateSchema", common)
     ELSE Command("CreateSchema", common @@ [Tags |-> Get(schema, "tags")])

\* The result registerSchema returns from its catch block.
failureResult(error) == [success |-> FALSE, error |-> errorText(error)]

\* The result registerSchema returns after a create or update call.
successResult(response) ==
  [success |-> TRUE, schemaId |-> response.SchemaArn, version |-> response.SchemaVersion]

-----------------------------------------------------------------------------
(* Schema registry: inputs and actions *)

SchemaTypes == {"order.created", "order.updated"}

Registrations ==
  {[type |-> Str(type), schema |-> Str("{\"type\":\"object\"}")] : type \in SchemaTypes}
    \cup {[type |-> Str(type), schema |-> Str("{\"type\":\"object\"}"),
           description |-> Str("an event"), tags |-> [team |-> Str("orders")]] :
            type \in SchemaTypes}

RegistryConfigs ==
  {[registryName |-> Str("events")],
   [registryName |-> Str("events"), region |-> Str("eu-west-1")]}

\* process.env as a call finds it.
Environments ==
  {[NODE_ENV |-> Str("test")],
   [SCHEMA_REGISTRY_NAME |-> Str("")],
   [SCHEMA_REGISTRY_NAME |-> Str("env-events")],
   [SCHEMA_REGISTRY_NAME |-> Str("env-events"), AWS_REGION |-> Str("ap-south-1")],
   [SCHEMA_REGISTRY_NAME |-> Str("env-events"), AWS_DEFAULT_REGION |-> Str("eu-north-1")]}

\* What a rejected send call rejects with: an Error, or a value that is not one.
SendErrors == {ErrorOf("ServiceUnavailableException"), Str("socket hang up")}

\* What a send call resolves with.
WriteResponse(command) ==
  [SchemaArn |-> Str("arn:aws:schemas:" \o command.input.SchemaName.id),
   SchemaVersion |-> Str(IF command.command = "CreateSchema" THEN "1" ELSE "2")]

\* schemaRegistry.configure(config)
Configure(config) ==
  /\ pc = "idle"
  /\ globalRegistryConfig' = configured(config)
  /\ UNCHANGED <<pc, call, ret, requests, responses, resolvedBus, factoryCalls, handlerVars,
                 cachedSchemaClient, registry, clientVars>>

\* schemaRegistry.disconnect()
Disconnect ==
  /\ pc = "idle"
  /\ cachedSchemaClient' = Null
  /\ UNCHANGED <<pc, call, ret, requests, responses, resolvedBus, factoryCalls, handlerVars,
                 globalRegistryConfig, registry, clientVars>>

\* Another user of the remote registry adds or removes a schema.
RegistryChanges(type) ==
  /\ pc = "idle"
  /\ registry' = IF type \in registry THEN registry \ {type} ELSE registry \cup {type}
  /\ UNCHANGED <<pc, call, ret, requests, responses, resolvedBus, factoryCalls, handlerVars,
                 globalRegistryConfig, cachedSchemaClient, clientVars>>

\* schemaRegistry.registerSchema(schema), up to the point where it has returned a
\* failure or has sent DescribeSchemaCommand.
RegisterSchema(schema, env, sdk) ==
  /\ pc = "idle"
  /\ call' = [op |-> "registerSchema", schema |-> schema, env |-> env, sdk |-> sdk]
  /\ LET r == registerStart(schema, cachedSchemaClient, globalRegistryConfig, env, sdk) IN
       /\ globalRegistryConfig' = r.global
       /\ cachedSchemaClient' = r.cached
       /\ pc' = IF r.failed THEN "returned" ELSE "awaitDescribe"
       /\ ret' = IF r.failed THEN failureResult(r.error) ELSE Undef
       /\ requests' = IF r.failed THEN <<>> ELSE <<r.command>>
       /\ responses' = IF r.failed THEN <<>> ELSE <<Pending>>
  /\ UNCHANGED <<resolvedBus, factoryCalls, handlerVars, registry, clientVars>>

\* The DescribeSchemaCommand call settles: it resolves only if the registry holds
\* the schema, and whatever it rejects with is swallowed.  registerSchema goes on to
\* send UpdateSchemaCommand or CreateSchemaCommand.
DescribeSettles(found) ==
  /\ pc = "awaitDescribe"
  /\ found => call.schema.type.id \in registry
  /\ requests' = Append(requests, writeCommand(call.schema, requests[1], found))
  /\ responses' = <<IF found THEN [SchemaName |-> call.schema.type] ELSE Rejected, Pending>>
  /\ pc' = "awaitWrite"
  /\ UNCHANGED <<call, ret, resolvedBus, factoryCalls, handlerVars, registryVars, clientVars>>

\* The create or update call resolves: create needs the schema to be new, update
\* needs it to exist.
WriteResolves ==
  /\ pc = "awaitWrite"
  /\ (requests[2].command = "CreateSchema") <=> (call.schema.type.id \notin registry)
  /\ responses' = [responses EXCEPT ![2] = WriteResponse(requests[2])]
  /\ registry' = registry \cup {call.schema.type.id}
  /\ ret' = successResult(WriteResponse(requests[2]))
  /\ pc' = "returned"
  /\ UNCHANGED <<call, requests, resolvedBus, factoryCalls, handlerVars,
                 globalRegistryConfig, cachedSchemaClient, clientVars>>

\* The create or update call rejects and registerSchema lets the rejection through.
WriteRejectsThrows(error) ==
  /\ pc = "awaitWrite"
  /\ responses' = [responses EXCEPT ![2] = Rejected]
  /\ ret' = error
  /\ pc' = "thrown"
  /\ UNCHANGED <<call, requests, resolvedBus, factoryCalls, handlerVars, registryVars, clientVars>>

\* The create or update call rejects: the catch block turns it into a result.
WriteRejects(error) ==
  /\ pc = "awaitWrite"
  /\ responses' = [responses EXCEPT ![2] = Rejected]
  /\ ret' = failureResult(error)
  /\ pc' = "returned"
  /\ UNCHANGED <<call, requests, resolvedBus, factoryCalls, handlerVars, registryVars, clientVars>>

NextRegistry ==
  \/ \E config \in RegistryConfigs : Configure(config)
  \/ Disconnect
  \/ \E type \in SchemaTypes : RegistryChanges(type)
  \/ pc = "idle" /\ \E schema \in Registrations, env \in Environments, sdk \in BOOLEAN :
                      RegisterSchema(schema, env, sdk)
  \/ \E found \in BOOLEAN : DescribeSettles(found)
  \/ WriteResolves
  \/ \E error \in SendErrors : WriteRejects(error)
  \/ Done

SpecRegistry == Init /\ [][NextRegistry]_vars

-----------------------------------------------------------------------------
(* autoSyncAllSchemas *)

Bool(b) == [t |-> "boolean", v |-> b]

\* The options parameter with its default: { deleteOrphaned: true } when no
\* argument is passed.
optionsOrDefault(options) ==
  IF TypeOf(options) = "undefined" THEN [deleteOrphaned |-> Bool(TRUE)] ELSE options

\* configureRegistry(): the configuration it hands to schemaRegistry.configure.
sstRegistryConfig == [registryName |-> Str("sst-events"), region |-> Str("us-west-2")]

\* discoveredTypes: the names of the Events collected.
discoveredTypes(allEvents) == {EventDefs[allEvents[i]].name : i \in 1..Len(allEvents)}

\* existingTypes, in the insertion order of the Set: the types of the schemas
\* listSchemas returned, once each.
existingTypes(existingSchemas) == distinct(existingSchemas, {})

\* The orphan filter letting every existing type through.
orphanedTypesAll(existing, discovered) == existing

\* orphanedTypes: Array.from(existingTypes).filter(type => !discoveredTypes.has(type))
orphanedTypes(existing, discovered) ==
  SelectSeq(existing, LAMBDA type : type \notin discovered)

\* A call autoSyncAllSchemas makes on the schema registry.
RegistryCall(name, type) == [command |-> name, type |-> type]

CallsNamed(name) == SelectSeq(requests, LAMBDA r : r.command = name)

\* The orphans of the running sync, known once the listing has arrived.
OrphansOfSync ==
  orphanedTypes(existingTypes(responses[1].listed), discoveredTypes(call.events))

\* Where autoSyncAllSchemas goes once registered of its Events have been through
\* registerEventSchema and deleted of its orphans through deleteSchema.
syncPosition(registered, deleted) ==
  IF registered < Len(call.events) THEN "syncRegistering"
  ELSE IF Truthy(Get(optionsOrDefault(call.options), "deleteOrphaned"))
            /\ deleted < Len(OrphansOfSync)
       THEN "syncDeleting"
       ELSE "returned"

-----------------------------------------------------------------------------
(* autoSyncAllSchemas: inputs and actions *)

MaxDiscovered == 2

\* The names the remote registry may hold: two of them are names of Events.
RegistryNames == SchemaTypes \cup {"legacy.event"}

\* The Event lists collectEventInstances may return: an Event exported from two
\* files is collected twice.
Discovered == SeqsUpTo(Events, MaxDiscovered)

\* No argument, deleteOrphaned given as true or false, and an options object
\* without deleteOrphaned.
SyncOptions ==
  {Undef, [deleteOrphaned |-> Bool(TRUE)], [deleteOrphaned |-> Bool(FALSE)],
   [k \in {} |-> Undef]}

\* The listings listSchemas may return while the registry holds a set of names:
\* the names in registry order, less those whose getSchema call gave null.
Listings(held) ==
  LET order == <<"legacy.event", "order.created", "order.updated">>
  IN {SelectSeq(order, LAMBDA type : type \in kept) : kept \in SUBSET held}

\* autoSyncAllSchemas(options) up to its first await on the registry: sst says
\* whether require("sst") works, sdk whether the AWS SDK can be imported.
AutoSync(options, allEvents, sst, sdk) ==
  /\ pc = "idle"
  /\ call' = [op |-> "autoSync", options |-> options, events |-> allEvents,
              sst |-> sst, sdk |-> sdk]
  /\ ret' = Undef
  /\ responses' = <<>>
  /\ IF ~sst
     THEN /\ pc' = "thrown"
          /\ requests' = <<>>
          /\ UNCHANGED <<globalRegistryConfig, cachedSchemaClient>>
     ELSE LET client == getSchemaClient(cachedSchemaClient, configured(sstRegistryConfig),
                                        [NODE_ENV |-> Str("test")], sdk)
          IN /\ globalRegistryConfig' = configured(sstRegistryConfig)
             /\ IF Len(allEvents) = 0
                THEN /\ pc' = "returned"
                     /\ requests' = <<>>
                     /\ UNCHANGED cachedSchemaClient
                ELSE /\ cachedSchemaClient' = client.cached
                     /\ pc' = IF client.threw THEN "thrown" ELSE "syncListing"
                     /\ requests' = IF client.threw THEN <<>>
                                    ELSE <<RegistryCall("listSchemas", "")>>
  /\ UNCHANGED <<resolvedBus, factoryCalls, handlerVars, registry, clientVars>>

\* listSchemas() resolves with a listing.
SyncListed(listing) ==
  /\ pc = "syncListing"
  /\ responses' = <<[listed |-> listing]>>
  /\ pc' = "syncRegistering"
  /\ UNCHANGED <<call, ret, requests, resolvedBus, factoryCalls, handlerVars, registryVars,
                 clientVars>>

\* listSchemas() rejects: the outer catch ends the process with exit code 1.
SyncListFails ==
  /\ pc = "syncListing"
  /\ responses' = <<Rejected>>
  /\ pc' = "thrown"
  /\ UNCHANGED <<call, ret, requests, resolvedBus, factoryCalls, handlerVars, registryVars,
                 clientVars>>

\* One iteration of the loop over allEvents: registerEventSchema(event), which
\* registers the schema or logs the failure, and never throws.
SyncRegister(success) ==
  /\ pc = "syncRegistering"
  /\ LET event == call.events[Len(CallsNamed("registerSchema")) + 1]
         type == EventDefs[event].name
     IN /\ requests' = Append(requests, RegistryCall("registerSchema", type))
        /\ responses' = Append(responses, [success |-> success])
        /\ registry' = IF success THEN registry \cup {type} ELSE registry
        /\ pc' = syncPosition(Len(CallsNamed("registerSchema")) + 1, 0)
  /\ UNCHANGED <<call, ret, resolvedBus, factoryCalls, handlerVars, globalRegistryConfig,
                 cachedSchemaClient, clientVars>>

\* One iteration of the loop over orphanedTypes: deleteSchema(type), whose failure
\* is recorded and does not stop the loop.
SyncDelete(success) ==
  /\ pc = "syncDeleting"
  /\ LET type == OrphansOfSync[Len(CallsNamed("deleteSchema")) + 1]
     IN /\ requests' = Append(requests, RegistryCall("deleteSchema", type))
        /\ responses' = Append(responses, IF success THEN [deleted |-> type] ELSE Rejected)
        /\ registry' = IF success THEN registry \ {type} ELSE registry
        /\ pc' = syncPosition(Len(call.events), Len(CallsNamed("deleteSchema")) + 1)
  /\ UNCHANGED <<call, ret, resolvedBus, factoryCalls, handlerVars, globalRegistryConfig,
                 cachedSchemaClient, clientVars>>

NextSync ==
  \/ \E type \in RegistryNames : RegistryChanges(type)
  \/ pc = "idle" /\ \E options \in SyncOptions, allEvents \in Discovered, sst, sdk \in BOOLEAN :
                      AutoSync(options, allEvents, sst, sdk)
  \/ pc = "syncListing" /\ \E listing \in Listings(registry) : SyncListed(listing)
  \/ SyncListFails
  \/ \E success \in BOOLEAN : SyncRegister(success)
  \/ \E success \in BOOLEAN : SyncDelete(success)
  \/ Done

SpecSync == Init /\ [][NextSync]_vars

-----------------------------------------------------------------------------
(* Properties of Bus.put, checked under SpecBus *)

CeilDiv(n, d) == (n + d - 1) \div d

\* An entry's size as the documentation counts it: the UTF-8 byte lengths of Detail,
\* DetailType, Source and each Resource, plus 14 when Time is set.
EntryBytes(entry) ==
  (IF "Detail" \in DOMAIN entry THEN entry.Detail.bytes ELSE 0)
  + (IF "DetailType" \in DOMAIN entry THEN entry.DetailType.bytes ELSE 0)
  + (IF "Source" \in DOMAIN entry THEN entry.Source.bytes ELSE 0)
  + (IF "Resources" \in DOMAIN entry
     THEN SumSeq([i \in 1..Len(entry.Resources.items) |-> entry.Resources.items[i].bytes])
     ELSE 0)
  + (IF "Time" \in DOMAIN entry THEN 14 ELSE 0)

TotalBytes(entries) == SumSeq([i \in 1..Len(entries) |-> EntryBytes(entries[i])])

\* The byte-size limit is never reached: no run of ten consecutive entries counted
\* from the start of the input (entries 1-10, 11-20, ...) exceeds 256000 bytes.
SizeLimitNeverReached(events) ==
  \A b \in 0..(Len(events) \div 10) :
    TotalBytes(SubSeq(events, 10 * b + 1,
                      IF 10 * b + 10 < Len(events) THEN 10 * b + 10 ELSE Len(events))) <= 256000

RequestLengths == [i \in 1..Len(requests) |-> Len(requests[i].Entries)]

\* C1 (as stated): every request issued by Bus.put holds at most 10 entries, and
\* when the byte-size limit is never reached an input of n entries is sent in
\* exactly ceil(n/10) requests.
C1_Original ==
  call.op = "Bus.put" =>
    /\ \A i \in 1..Len(requests) : Len(requests[i].Entries) <= 10
    /\ SizeLimitNeverReached(call.events) =>
         Len(requests) = CeilDiv(Len(call.events), 10)

\* C1 (amended): every request issued by Bus.put holds at most 10 entries, and
\* when the byte-size limit is never reached an input of n >= 1 entries is sent in
\* exactly ceil(n/10) requests, while the empty input is sent in exactly one
\* request, which holds no entry.
C1_ChunkCount ==
  call.op = "Bus.put" =>
    /\ \A i \in 1..Len(requests) : Len(requests[i].Entries) <= 10
    /\ SizeLimitNeverReached(call.events) =>
         IF Len(call.events) = 0
         THEN RequestLengths = <<0>>
         ELSE Len(requests) = CeilDiv(Len(call.events), 10)

\* 15 small entries were put: two requests, of 10 and of 5 entries.
C1_Witness ==
  /\ call.op = "Bus.put"
  /\ Len(call.events) = 15
  /\ SizeLimitNeverReached(call.events)
  /\ RequestLengths = <<10, 5>>

ResponseCount(r) == IF r.FailedEntryCount = Undef THEN 0 ELSE r.FailedEntryCount.v
ResponseEntries(r) == IF r.Entries = Undef THEN <<>> ELSE r.Entries.items

\* C2: when Bus.put has split the input into two or more chunks, the response it
\* returns has FailedEntryCount equal to the sum of the chunk responses' counts (a
\* missing count counting as 0) and Entries equal to the concatenation of the chunk
\* responses' Entries, in chunk order.
C2_MergedResponse ==
  (pc = "returned" /\ call.op = "Bus.put" /\ Len(requests) >= 2) =>
    /\ ret.FailedEntryCount =
         Num(SumSeq([i \in 1..Len(responses) |-> ResponseCount(responses[i])]))
    /\ ret.Entries =
         Arr(Flatten([i \in 1..Len(responses) |-> ResponseEntries(responses[i])]))

\* A put of three chunks returned: two chunks reported a failed entry and one
\* response carried no count.
C2_Witness ==
  /\ pc = "returned"
  /\ call.op = "Bus.put"
  /\ Len(requests) = 3
  /\ \E i \in 1..3 : responses[i].FailedEntryCount = Undef
  /\ ret.FailedEntryCount = Num(2)
  /\ Len(ret.Entries.items) > 0

\* C3: every request issued by Bus.put has a total entry size of at most 256000
\* bytes, an entry's size being the UTF-8 byte lengths of its Detail, DetailType,
\* Source and each Resource, plus 14 when Time is set.
C3_RequestBytes ==
  \A i \in 1..Len(requests) : TotalBytes(requests[i].Entries) <= 256000

-----------------------------------------------------------------------------
(* Properties of Event, checked under SpecEvent *)

\* The Bus an Event's bus getter yields: the instance it was given or the one its
\* factory returns.
OwnBus(e) == EventDefs[e].bus.value

IsEntryShaped(x) ==
  /\ "Source" \in DOMAIN x /\ x.Source.t = "string"
  /\ "DetailType" \in DOMAIN x /\ x.DetailType.t = "string"

\* The Bus an entry resolves to in a publish call of Event e.
ResolvesTo(e, entry) == IF "__bus" \in DOMAIN entry THEN entry.__bus ELSE OwnBus(e)

PublishOfEntries ==
  /\ call.op = "publish"
  /\ TypeOf(call.data) = "array"
  /\ Len(call.data.items) > 0
  /\ \A i \in 1..Len(call.data.items) : IsEntryShaped(call.data.items[i])

MixedBuses ==
  \E i, j \in 1..Len(call.data.items) :
    ResolvesTo(call.event, call.data.items[i]) # ResolvesTo(call.event, call.data.items[j])

\* C4: when publish is given an array of entries two of which resolve to
\* different Bus instances (an entry resolves to the bus create() tagged it with,
\* or to the publishing Event's own bus when it is untagged), publish fails and no
\* send call is issued on any bus.
C4_MixedBusesRejected ==
  (PublishOfEntries /\ MixedBuses) => (pc = "thrown" /\ requests = <<>>)

\* publish failed on an array holding an untagged entry and an entry tagged with
\* a bus other than the publishing Event's own.
C4_Witness ==
  /\ PublishOfEntries
  /\ MixedBuses
  /\ \E i \in 1..Len(call.data.items) : "__bus" \notin DOMAIN call.data.items[i]
  /\ \E i \in 1..Len(call.data.items) :
       "__bus" \in DOMAIN call.data.items[i] /\ call.data.items[i].__bus # OwnBus(call.event)
  /\ pc = "thrown"

\* C5: publish called with an empty array fails, issues no send call and leaves
\* the lazy bus unresolved: _resolvedBus and the factory's call count are unchanged.
C5_EmptyArrayRejected ==
  [][(pc = "idle" /\ call'.op = "publish" /\ TypeOf(call'.data) = "array"
        /\ Len(call'.data.items) = 0)
      => (pc' = "thrown" /\ requests' = <<>>
            /\ resolvedBus' = resolvedBus /\ factoryCalls' = factoryCalls)]_vars

\* publish([]) failed on an Event with a bus factory, whose bus is still unresolved.
C5_Witness ==
  /\ call.op = "publish"
  /\ TypeOf(call.data) = "array"
  /\ Len(call.data.items) = 0
  /\ pc = "thrown"
  /\ EventDefs[call.event].bus.kind = "factory"
  /\ ~Truthy(resolvedBus[call.event])
  /\ factoryCalls[call.event] = 0

FilterGiven == TypeOf(call.filter) # "undefined"

\* C6: pattern(F) has source = [the Event's source] and detail-type = [the
\* Event's name]; when F is given it has detail = { properties: F }, F unchanged
\* (its $or list included), and when no filter is given it has no detail key.
C6_Pattern ==
  (call.op = "pattern" /\ pc = "returned") =>
    /\ ret["source"] = <<EventDefs[call.event].source>>
    /\ ret["detail-type"] = <<EventDefs[call.event].name>>
    /\ IF FilterGiven
       THEN /\ DOMAIN ret = {"source", "detail-type", "detail"}
            /\ DOMAIN ret["detail"] = {"properties"}
            /\ DOMAIN ret["detail"].properties = DOMAIN call.filter
            /\ \A k \in DOMAIN call.filter : ret["detail"].properties[k] = call.filter[k]
       ELSE DOMAIN ret = {"source", "detail-type"}

\* pattern was called with a filter holding a $or list and returned it under
\* detail.properties.
C6_Witness ==
  /\ call.op = "pattern"
  /\ pc = "returned"
  /\ FilterGiven
  /\ "$or" \in DOMAIN call.filter
  /\ Len(ret["detail"].properties["$or"]) = 2

EventSources == [i \in 1..Len(call.events) |-> EventDefs[call.events[i]].source]
EventNames == [i \in 1..Len(call.events) |-> EventDefs[call.events[i]].name]

FirstPosition(list, x) == CHOOSE i \in 1..Len(list) : list[i] = x /\ \A j \in 1..(i - 1) : list[j] # x

\* C7: for a non-empty list of Events, computePattern returns a source list that
\* holds each distinct event source exactly once, in order of first occurrence, and
\* a detail-type list that is the event names in input order, one per input event.
C7_ComputePattern ==
  (call.op = "computePattern" /\ Len(call.events) > 0) =>
    /\ pc = "returned"
    /\ {ret["source"][i] : i \in 1..Len(ret["source"])} =
         {EventSources[i] : i \in 1..Len(EventSources)}
    /\ \A i, j \in 1..Len(ret["source"]) :
         i < j => /\ ret["source"][i] # ret["source"][j]
                  /\ FirstPosition(EventSources, ret["source"][i])
                       < FirstPosition(EventSources, ret["source"][j])
    /\ Len(ret["detail-type"]) = Len(call.events)
    /\ \A i \in 1..Len(call.events) : ret["detail-type"][i] = EventNames[i]

\* computePattern returned for three Events of two sources, the second source
\* occurring twice.
C7_Witness ==
  /\ call.op = "computePattern"
  /\ pc = "returned"
  /\ call.events = <<"PaymentProcessed", "OrderCreated", "OrderUpdated">>
  /\ ret["source"] = <<"payment-service", "order-service">>
  /\ ret["detail-type"] = <<"payment.processed", "order.created", "order.updated">>

\* C8: computePattern called with an empty event list throws, with or without a
\* filter, and returns no pattern.
C8_EmptyListThrows ==
  (call.op = "computePattern" /\ Len(call.events) = 0) =>
    (pc = "thrown" /\ TypeOf(ret) = "undefined")

\* computePattern([], F) threw for a filter F.
C8_Witness ==
  /\ call.op = "computePattern"
  /\ Len(call.events) = 0
  /\ FilterGiven
  /\ pc = "thrown"

-----------------------------------------------------------------------------
(* Properties of createTransform, checked under SpecTransform *)

TransformCall == call.op = "createTransform"

\* The expressions of the called transform's body, and the set A of event
\* properties the transform reads.
BodyTerms == subterms(call.transform.body)
PropsRead == {s.f : s \in {s \in BodyTerms : s.k = "prop"}} \cup call.transform.alsoReads

ReadsSystemField == \E s \in BodyTerms : s.k = "sys"
ReturnsEvent == EventT \in BodyTerms
ReturnsSystem == SystemT \in BodyTerms

PathsExactly(fields) ==
  /\ DOMAIN ret.inputPaths = fields
  /\ \A f \in fields : ret.inputPaths[f] = "$.detail.properties." \o f

\* C9 as stated: a transform that reads the set A of event properties one by one,
\* reads no system field and does not return the properties proxy gets inputPaths
\* whose keys are exactly A, each with the path $.detail.properties.f.
C9_Original ==
  (TransformCall /\ ~ReadsSystemField /\ ~ReturnsEvent) => PathsExactly(PropsRead)

\* C9: a transform that reads the set A of event properties one by one, reads no
\* system field, and returns neither the properties proxy nor the system object
\* anywhere in its result, gets inputPaths whose keys are exactly A, each with the
\* path $.detail.properties.f.
C9_InputPaths ==
  (TransformCall /\ ~ReadsSystemField /\ ~ReturnsEvent /\ ~ReturnsSystem)
    => PathsExactly(PropsRead)

\* Two properties are returned and a third is read without being returned, with a
\* schema given.
C9_Witness ==
  /\ TransformCall /\ pc = "returned"
  /\ ~ReadsSystemField /\ ~ReturnsEvent /\ ~ReturnsSystem
  /\ Truthy(call.eventSchema)
  /\ Cardinality(PropsRead) = 3
  /\ call.transform.alsoReads # {}

\* Every field of the schema passed as eventSchema.
SchemaFieldsOfCall ==
  LET schema == EventDefs[call.eventSchema.e].schema
  IN [i \in 1..Len(schema) |-> schema[i].name]

\* C10: a transform whose result contains the properties proxy, called with an
\* event schema, gets inputPaths with the key f and the path $.detail.properties.f
\* for every field f of the schema, required or not, and a template in which the
\* proxy is replaced by an object holding the placeholder <f> for every such field.
C10_FullEvent ==
  (TransformCall /\ ReturnsEvent /\ Truthy(call.eventSchema)) =>
    /\ \A i \in 1..Len(SchemaFieldsOfCall) :
         LET f == SchemaFieldsOfCall[i] IN
           /\ f \in DOMAIN ret.inputPaths
           /\ ret.inputPaths[f] = "$.detail.properties." \o f
    /\ ret.inputTemplate =
         JSONstringify(
           reconstructWithTemplate(
             evalTerm(call.transform.body),
             Obj([i \in 1..Len(SchemaFieldsOfCall) |->
                    Member(SchemaFieldsOfCall[i], Placeholder(SchemaFieldsOfCall[i]))])))

-----------------------------------------------------------------------------
(* Properties of the lazy bus and of validation, checked under SpecEvent *)

HasBusFactory(e) == EventDefs[e].bus.kind = "factory"

OnEvent(e) == call.op \in {"create", "publish"} /\ call.event = e

\* The Bus instances the current call has used: the one create() tagged its entry
\* with, and the ones whose put() issued the send calls.
UsedBuses ==
  {requests[i].bus : i \in 1..Len(requests)}
    \cup (IF call.op = "create" /\ pc = "returned" THEN {ret.__bus} ELSE {})

\* The Bus tags carried by the entries handed to the current publish call.
TagsPassedIn ==
  IF call.op = "publish" /\ TypeOf(call.data) = "array"
  THEN {call.data.items[i].__bus :
          i \in {j \in 1..Len(call.data.items) : "__bus" \in DOMAIN call.data.items[j]}}
  ELSE {}

SchemaRejects(x) == ~schemaAccepts(EventDefs[call.event].schema, x)

\* The data of the current call is a raw record, or a non-empty array of raw
\* records, and the schema rejects it, or at least one of the array's records.
RejectedInput ==
  \/ call.op = "create" /\ SchemaRejects(call.data)
  \/ call.op = "publish" /\ TypeOf(call.data) # "array" /\ SchemaRejects(call.data)
  \/ /\ call.op = "publish" /\ TypeOf(call.data) = "array"
     /\ \A i \in 1..Len(call.data.items) : ~IsEntryShaped(call.data.items[i])
     /\ \E i \in 1..Len(call.data.items) : SchemaRejects(call.data.items[i])

\* C12: when create(properties) or publish(data) is given a record the schema
\* rejects, or publish an array of raw records of which at least one is rejected,
\* the call fails and no send call is issued, not even for the valid records.
C12_FailFast ==
  RejectedInput => (pc = "thrown" /\ requests = <<>>)

\* publish([valid, invalid]) has failed with nothing sent.
C12_Witness ==
  /\ call.op = "publish" /\ TypeOf(call.data) = "array"
  /\ Len(call.data.items) = 2
  /\ call.data.items[1] = ValidRecord(call.event)
  /\ call.data.items[2] = InvalidRecord(call.event)
  /\ pc = "thrown"
  /\ requests = <<>>

-----------------------------------------------------------------------------
(* Further properties of Bus.put, checked under SpecBus *)

\* The chunks of the current Bus.put call.
ChunksOfCall == chunkEntries(withBusName(call.bus, call.events))

\* C13: Bus.put issues one send call per chunk when it is called, and issues no
\* further send call while the responses arrive, whatever FailedEntryCount they
\* report, up to the point where it returns or fails.
C13_NoRetry ==
  [][/\ (pc = "idle" /\ call'.op = "Bus.put") =>
          Len(requests') =
            Len(chunkEntries(withBusName(call'.bus, call'.events)))
     /\ (call.op = "Bus.put" /\ pc = "awaiting") => requests' = requests]_vars

\* put has returned after two chunks were sent and both responses reported a failed
\* entry: two send calls were issued in all.
C13_Witness ==
  /\ call.op = "Bus.put" /\ pc = "returned"
  /\ Len(ChunksOfCall) = 2
  /\ Len(requests) = 2
  /\ \A i \in 1..2 : ResponseCount(responses[i]) = 1

\* C14: every entry of every request Bus.put issues carries EventBusName equal to
\* the name of the Bus whose put issued it, also when the input entry already
\* carried another EventBusName.
C14_EventBusName ==
  \A i \in 1..Len(requests) :
    \A j \in 1..Len(requests[i].Entries) :
      /\ "EventBusName" \in DOMAIN requests[i].Entries[j]
      /\ requests[i].Entries[j].EventBusName = Str(requests[i].bus.name)

\* An entry that came in with another bus's name has been sent, after ten others.
C14_Witness ==
  /\ call.op = "Bus.put"
  /\ Len(call.events) = 11
  /\ "EventBusName" \in DOMAIN call.events[11]
  /\ call.events[11].EventBusName # Str(call.bus.name)
  /\ RequestLengths = <<10, 1>>
  /\ requests[2].Entries[1].Detail = call.events[11].Detail

\* JSON.stringify({ properties: validated }) for the valid record of each Event;
\* the key traceId, which the schema of OrderUpdated does not have, is stripped.
ExpectedDetail(e) ==
  CASE e = "OrderCreated" -> "{\"properties\":{\"orderId\":\"o1\",\"amount\":100}}"
    [] e = "OrderUpdated" -> "{\"properties\":{\"orderId\":\"o1\"}}"
    [] OTHER -> "{\"properties\":{\"paymentId\":\"p1\"}}"

\* C15: create(properties) with schema-valid properties returns an entry with
\* Source the event's source, DetailType the event's name and Detail the JSON
\* serialization of {properties: validated value}; the bus tag is not an enumerable
\* property of the entry, so the serialized entry has these three members only, and
\* no entry that Bus.put sends carries the tag.
C15_CreatedEntry ==
  /\ (call.op = "create" /\ schemaAccepts(EventDefs[call.event].schema, call.data)) =>
       /\ pc = "returned"
       /\ ret.Source = Str(EventDefs[call.event].source)
       /\ ret.DetailType = Str(EventDefs[call.event].name)
       /\ ret.Detail.id = ExpectedDetail(call.event)
       /\ ret.Detail.bytes = Len(ExpectedDetail(call.event))
       /\ ret.__bus = OwnBus(call.event)
       /\ ownEnumerableKeys(ret) = {"Source", "DetailType", "Detail"}
  /\ \A i \in 1..Len(requests) :
       \A j \in 1..Len(requests[i].Entries) : "__bus" \notin DOMAIN requests[i].Entries[j]

\* create() has returned the entry of OrderUpdated, whose valid record holds a key
\* the schema does not know.
C15_Witness ==
  /\ call.op = "create" /\ pc = "returned"
  /\ call.event = "OrderUpdated"
  /\ "traceId" \in DOMAIN call.data
  /\ ret.Detail.id = ExpectedDetail("OrderUpdated")
  /\ "__bus" \in DOMAIN ret

-----------------------------------------------------------------------------
(* Properties of createEventHandler, checked under SpecHandler *)

HandlerCall == call.op = "handler"

\* The i-th listed definition has the envelope's detail-type as its name, and its
\* schema accepts the envelope's detail.properties.
MatchesAndAccepts(i) ==
  /\ Str(HandlerDefs(call.events[i]).name) = call.awsEvent["detail-type"]
  /\ TypeOf(call.awsEvent.detail) # "undefined"
  /\ "properties" \in DOMAIN call.awsEvent.detail
  /\ schemaAccepts(HandlerDefs(call.events[i]).schema, call.awsEvent.detail.properties)

\* The callback was invoked with the properties as the i-th definition parses them.
InvokedWithParsed(i) ==
  /\ Len(callbacks) = 1
  /\ callbacks[1].type = call.awsEvent["detail-type"]
  /\ callbacks[1].properties =
       schemaParse(HandlerDefs(call.events[i]).schema, call.awsEvent.detail.properties)

\* The first listed definition named as the envelope's detail-type, if any.
IsFirstNamed(i) ==
  /\ Str(HandlerDefs(call.events[i]).name) = call.awsEvent["detail-type"]
  /\ \A j \in 1..(i - 1) :
       Str(HandlerDefs(call.events[j]).name) # call.awsEvent["detail-type"]

\* C16 as stated: when some listed definition has the envelope's detail-type as
\* its name and its schema accepts detail.properties, the callback is invoked
\* exactly once with the parsed properties; in every other case the handler
\* rejects and the callback is never invoked.
C16_Original ==
  HandlerCall =>
    IF \E i \in 1..Len(call.events) : MatchesAndAccepts(i)
    THEN \E i \in 1..Len(call.events) : MatchesAndAccepts(i) /\ InvokedWithParsed(i)
    ELSE pc = "thrown" /\ callbacks = <<>>

\* C16: when the first listed definition that has the envelope's detail-type as its
\* name accepts detail.properties, the callback is invoked exactly once, with the
\* properties as that definition's schema parses them; in every other case (no
\* definition of that name, or the first one rejects) the handler rejects and the
\* callback is never invoked.
C16_Handler ==
  HandlerCall =>
    IF \E i \in 1..Len(call.events) : IsFirstNamed(i) /\ MatchesAndAccepts(i)
    THEN \E i \in 1..Len(call.events) :
           IsFirstNamed(i) /\ MatchesAndAccepts(i) /\ InvokedWithParsed(i)
    ELSE pc = "thrown" /\ callbacks = <<>>

\* Two definitions are named order.created and both accept the properties: the
\* callback has run once, with the properties as the first one parses them.
C16_Witness ==
  /\ HandlerCall /\ pc = "returned"
  /\ call.events = <<"OrderCreatedV2", "OrderCreated">>
  /\ MatchesAndAccepts(1) /\ MatchesAndAccepts(2)
  /\ Len(callbacks) = 1
  /\ DOMAIN callbacks[1].properties = {"orderId"}

-----------------------------------------------------------------------------
(* Further properties of Event, checked under SpecEvent *)

\* C17: pattern() and computePattern() never go through the bus getter, whatever
\* the events and the filter: the call leaves _resolvedBus of every Event and the
\* call count of every factory as they were, so that what the factory would do,
\* throwing included, has no bearing on it; pattern() returns a pattern, and so
\* does computePattern() of a list that is not empty.
C17_PatternLeavesBus ==
  [][(pc = "idle" /\ call'.op \in {"pattern", "computePattern"}) =>
       /\ resolvedBus' = resolvedBus
       /\ factoryCalls' = factoryCalls
       /\ (call'.op = "pattern" \/ Len(call'.events) > 0) =>
            (pc' = "returned" /\ "source" \in DOMAIN ret' /\ "detail-type" \in DOMAIN ret')]_vars

\* computePattern has returned for the two Events with a bus factory and a filter,
\* and no factory has run.
C17_Witness ==
  /\ call.op = "computePattern" /\ pc = "returned"
  /\ call.events = <<"OrderUpdated", "PaymentProcessed">>
  /\ Truthy(call.filter)
  /\ \A e \in Events : factoryCalls[e] = 0 /\ ~Truthy(resolvedBus[e])

\* C18: the bus factory of an Event is invoked by publish() only: a step in which
\* a factory runs, or in which _resolvedBus of an Event is set, is the step of a
\* publish() call, so that create() calls leave the bus unresolved.
C18_BusOnlyOnPublish ==
  [][\A e \in Events :
       (HasBusFactory(e)
          /\ (factoryCalls'[e] # factoryCalls[e] \/ resolvedBus'[e] # resolvedBus[e]))
         => (pc = "idle" /\ call'.op = "publish")]_vars

-----------------------------------------------------------------------------
(* Properties of Bus.put on the empty list, checked under SpecBus *)

\* C19: Bus.put called with an empty list issues exactly one send call, whose
\* request holds no entry, and what it returns is that call's response.
C19_EmptyPut ==
  (call.op = "Bus.put" /\ Len(call.events) = 0) =>
    /\ Len(requests) = 1
    /\ requests[1].Entries = <<>>
    /\ requests[1].bus = call.bus
    /\ pc = "returned" => ret = responses[1]
    /\ pc = "thrown" => responses[1] = Rejected

\* put([]) has returned the response of its one send call.
C19_Witness ==
  /\ call.op = "Bus.put" /\ Len(call.events) = 0
  /\ pc = "returned"
  /\ Len(requests) = 1
  /\ responses[1] = Response("ok", requests[1])
  /\ ret = responses[1]

-----------------------------------------------------------------------------
(* Properties of schemaRegistry.registerSchema, checked under SpecRegistry *)

RegisterCall == call.op = "registerSchema"

\* The create or update call of the running registerSchema has resolved.
WriteSucceeded ==
  /\ Len(requests) = 2
  /\ requests[2].command \in {"CreateSchema", "UpdateSchema"}
  /\ responses[2] \notin {Pending, Rejected}

\* What stops registerSchema before it sends anything: no configuration from
\* configure() or the environment, or no SDK to import.
NotConfigured ==
  ~Truthy(globalRegistryConfig) /\ ~Truthy(Get(call.env, "SCHEMA_REGISTRY_NAME"))

\* C20: registerSchema never throws; it returns success = false with an error
\* message when the registry is not configured, the SDK is missing or the create or
\* update call fails, and success = true only when the create or update call
\* succeeded.
C20_RegisterNeverThrows ==
  RegisterCall =>
    /\ pc # "thrown"
    /\ pc = "returned" =>
         /\ ret.success <=> WriteSucceeded
         /\ ~ret.success =>
              /\ DOMAIN ret = {"success", "error"}
              /\ Len(ret.error) > 0
         /\ (NotConfigured \/ ~call.sdk) => ~ret.success
         /\ (Len(responses) = 2 /\ responses[2] = Rejected) => ~ret.success

\* The create call was rejected with a value that is not an Error, and
\* registerSchema returned a failure carrying its text.
C20_Witness ==
  /\ RegisterCall /\ pc = "returned"
  /\ Len(requests) = 2 /\ requests[2].command = "CreateSchema"
  /\ responses[2] = Rejected
  /\ ret = [success |-> FALSE, error |-> "socket hang up"]

-----------------------------------------------------------------------------
(* Properties of Bus.put's sending and merging, checked under SpecBus *)

PutCall == call.op = "Bus.put"

\* The chunks of the running put call's input.
ChunksOfPut == chunkEntries(withBusName(call.bus, call.events))

Settled(i) == responses[i] \notin {Pending, Rejected}

\* C21: when the input is split into k >= 2 chunks, all k send calls have been
\* issued in every state in which put waits for a response, whichever responses have
\* arrived, and put has returned only when all k responses have arrived.
C21_ParallelSend ==
  (PutCall /\ Len(ChunksOfPut) >= 2) =>
    /\ Len(requests) = Len(ChunksOfPut)
    /\ \A i \in 1..Len(requests) : requests[i].Entries = ChunksOfPut[i]
    /\ pc = "returned" => \A i \in 1..Len(requests) : Settled(i)

\* Three chunks: the third send call has been answered while the first two are
\* still pending.
C21_Witness ==
  /\ PutCall /\ pc = "awaiting"
  /\ Len(ChunksOfPut) = 3 /\ Len(requests) = 3
  /\ responses[1] = Pending /\ responses[2] = Pending /\ Settled(3)

\* The entries of the requests issued, in request order.
RequestEntries == Flatten([i \in 1..Len(requests) |-> requests[i].Entries])

\* C22: the chunks Bus.put sends, concatenated in order, are exactly the input
\* sequence with the bus name set, and no chunk is empty unless the input is empty.
C22_Partition ==
  PutCall =>
    /\ RequestEntries = withBusName(call.bus, call.events)
    /\ Len(RequestEntries) = Len(call.events)
    /\ \A i \in 1..Len(requests) : Len(requests[i].Entries) = 0 => Len(call.events) = 0

\* An input of 22 entries whose first entry nearly fills a request by its size: it
\* is cut into three chunks.
C22_Witness ==
  /\ PutCall
  /\ Len(call.events) = 22
  /\ Len(requests) = 3
  /\ EntryBytes(call.events[1]) > 128000

\* C23: once the send call of one chunk has rejected, Bus.put does not return a
\* result: it rejects, whatever the other send calls answer.
C23_RejectsOnAnyFailure ==
  (PutCall /\ \E i \in 1..Len(responses) : responses[i] = Rejected) =>
    /\ pc \in {"awaiting", "thrown"}
    /\ ret = Undef

\* put has rejected after one of three send calls rejected and another resolved.
C23_Witness ==
  /\ PutCall /\ pc = "thrown"
  /\ Len(requests) = 3
  /\ \E i, j \in 1..3 : responses[i] = Rejected /\ Settled(j)

\* C25: for every chunk after the first, its first entry added to the preceding
\* chunk would have given that chunk more than 10 entries or more than 256000 bytes.
C25_Greedy ==
  PutCall =>
    \A i \in 2..Len(requests) :
      \/ Len(requests[i - 1].Entries) + 1 > 10
      \/ TotalBytes(requests[i - 1].Entries) + EntryBytes(requests[i].Entries[1]) > 256000

\* Three chunks: the first closed by size after one entry, the second by count.
C25_Witness ==
  /\ PutCall
  /\ Len(requests) = 3
  /\ Len(requests[1].Entries) = 1
  /\ Len(requests[2].Entries) = 10
  /\ TotalBytes(requests[2].Entries) < 256000

\* Every response of the running put holds one result per request entry, in
\* request order.
OneResultPerEntry ==
  \A i \in 1..Len(responses) :
    /\ Settled(i)
    /\ responses[i].Entries # Undef
    /\ Len(responses[i].Entries.items) = Len(requests[i].Entries)

\* The results the client may give for an input entry.
ResultsFor(entry) == {Succeeded(entry), Failed(entry)}

\* C24: when put has split the input into several chunks and every response holds
\* one result per request entry in request order, the i-th entry of the merged
\* Entries is the result of the i-th input entry, in whatever order the send calls
\* have settled.
C24_ChunkOrder ==
  (PutCall /\ pc = "returned" /\ Len(requests) >= 2 /\ OneResultPerEntry) =>
    /\ Len(ret.Entries.items) = Len(call.events)
    /\ \A i \in 1..Len(call.events) : ret.Entries.items[i] \in ResultsFor(call.events[i])

\* A put of three chunks returned after a later send call had settled before an
\* earlier one, the second chunk reporting a failed entry.
C24_Witness ==
  /\ PutCall /\ pc = "returned" /\ outOfOrder
  /\ Len(requests) = 3 /\ OneResultPerEntry
  /\ responses[2].FailedEntryCount = Num(1)
  /\ ret.Entries.items[Len(requests[1].Entries) + 1] = Failed(call.events[Len(requests[1].Entries) + 1])

-----------------------------------------------------------------------------
(* Properties of Event.publish on arrays, checked under SpecEvent *)

PublishOfArray ==
  /\ call.op = "publish"
  /\ TypeOf(call.data) = "array"
  /\ Len(call.data.items) > 0

\* The number of entries the publish call has handed to Bus.put.
EntriesPut == SumSeq([i \in 1..Len(requests) |-> Len(requests[i].Entries)])

\* C26: whenever publish of a non-empty array does not fail, the number of entries
\* handed to Bus.put equals the length of the array, whatever mix of raw records and
\* entry-shaped objects the array holds.
C26_NoSilentDrop ==
  (PublishOfArray /\ pc # "thrown") => EntriesPut = Len(call.data.items)

\* The Bus the first entry of the published array resolves to.
FirstBus == ResolvesTo(call.event, call.data.items[1])

\* C27: when publish is given an array of entries that all resolve to the same Bus
\* B, the send calls issued are exactly those of one B.put of the whole array, and
\* no send call goes to another bus, also when B is not the publishing Event's own.
C27_SameBusPut ==
  (PublishOfEntries /\ ~MixedBuses) =>
    /\ requests = putRequests(FirstBus, call.data.items)
    /\ \A i \in 1..Len(requests) : requests[i].bus = FirstBus
    /\ EntriesPut = Len(call.data.items)

\* Three entries created by an Event of another bus were published through an
\* Event whose own bus is a different one.
C27_Witness ==
  /\ PublishOfEntries /\ ~MixedBuses
  /\ Len(call.data.items) = 3
  /\ FirstBus # OwnBus(call.event)
  /\ Len(requests) = 1 /\ requests[1].bus = FirstBus

-----------------------------------------------------------------------------
(* Properties of createTransform's placeholders, checked under SpecTransform *)

\* The value createTransform passes to JSON.stringify for the called transform.
TemplateValue ==
  LET result == evalTerm(call.transform.body)
  IN IF ReturnsEvent /\ Truthy(call.eventSchema)
     THEN LET fields == extractSchemaFields(EventDefs[call.eventSchema.e].schema)
          IN reconstructWithTemplate(
               result, Obj([i \in 1..Len(fields) |-> Member(fields[i], Placeholder(fields[i]))]))
     ELSE result

\* The names a placeholder can carry in these calls.
PlaceholderNames ==
  PropNames \cup SystemNames \cup {"note"}
    \cup UNION {{EventDefs[e].schema[i].name : i \in 1..Len(EventDefs[e].schema)} : e \in Events}

\* The names f whose placeholder <f> occurs as a string in a value, as
\* JSON.stringify writes it out.
RECURSIVE placeholdersIn(_)
placeholdersIn(v) ==
  CASE v.t = "string" -> {f \in PlaceholderNames : v = Placeholder(f)}
    [] v.t = "array" -> UNION {placeholdersIn(v.items[i]) : i \in 1..Len(v.items)}
    [] v.t = "object" -> UNION {placeholdersIn(v.members[i].value) : i \in 1..Len(v.members)}
    [] v = SystemProxy -> {"time", "source"}
    [] OTHER -> {}

\* C28: in every result of createTransform, each placeholder <f> that occurs in
\* inputTemplate has a key f in inputPaths.
C28_PlaceholdersHavePaths ==
  TransformCall =>
    /\ ret.inputTemplate = JSONstringify(TemplateValue)
    /\ placeholdersIn(TemplateValue) \subseteq DOMAIN ret.inputPaths

\* C29: every property f the transform reads one by one through the properties
\* proxy has inputPaths[f] = "$.detail.properties.f" in the result, whichever
\* system fields the transform also reads, including when f is named time or
\* source.
C29_PropertyKeepsPath ==
  TransformCall =>
    \A f \in PropsRead :
      /\ f \in DOMAIN ret.inputPaths
      /\ ret.inputPaths[f] = "$.detail.properties." \o f

-----------------------------------------------------------------------------
(* Properties of autoSyncAllSchemas, checked under SpecSync *)

SyncCall == call.op = "autoSync"

\* The types the registry listed to the running sync.
ListedTypes ==
  IF Len(responses) >= 1 /\ responses[1] # Rejected /\ "listed" \in DOMAIN responses[1]
  THEN {responses[1].listed[i] : i \in 1..Len(responses[1].listed)}
  ELSE {}

DiscoveredNames == {EventDefs[call.events[i]].name : i \in 1..Len(call.events)}

DeleteOrphanedIsTrue ==
  \/ call.options = Undef
  \/ Get(call.options, "deleteOrphaned") = Bool(TRUE)

\* C30: autoSyncAllSchemas calls deleteSchema(t) only if t was listed by the
\* registry, t is not the name of a discovered Event and deleteOrphaned is true;
\* when no Event is discovered it makes no call on the registry at all.
C30_DeletesOnlyOrphans ==
  SyncCall =>
    /\ \A i \in 1..Len(requests) :
         requests[i].command = "deleteSchema" =>
           /\ requests[i].type \in ListedTypes
           /\ requests[i].type \notin DiscoveredNames
           /\ DeleteOrphanedIsTrue
    /\ Len(call.events) = 0 => requests = <<>>

\* A sync that found a listed Event has deleted the listed schema of no Event.
C30_Witness ==
  /\ SyncCall /\ pc = "returned"
  /\ "order.created" \in DiscoveredNames \cap ListedTypes
  /\ \E i \in 1..Len(requests) :
       /\ requests[i] = RegistryCall("deleteSchema", "legacy.event")
       /\ responses[i] # Rejected
  /\ "legacy.event" \notin registry

====
